---- MODULE Spec2Model ----
(***************************************************************************)
(* IMU_VIZ: the backend fan-out with its per-observer calibration store    *)
(* (backend/server.js, backend/calibration-manager.js, backend/            *)
(* data-processor.js, backend/udp-receiver.js) and the observer's          *)
(* calibration session (frontend CalibrationPanel.js and App.js).          *)
(*                                                                         *)
(* Numbers.  JavaScript numbers are modelled in fixed point with two       *)
(* decimal places: the integer n stands for n / Scale.  The inputs are     *)
(* chosen so that every product, quotient and square root of the model is  *)
(* exact (quaternions on the coordinate axes, the gravity constant 9.81).  *)
(*                                                                         *)
(* JavaScript values.  A property that is undefined (or null) is a field   *)
(* that the record does not have; a Map is a function whose DOMAIN is the  *)
(* set of its keys.                                                        *)
(***************************************************************************)
EXTENDS Integers, Sequences, FiniteSets, TLC

\* ---------------------------------------------------------------- numbers

Scale == 10 * 10

Mul(a, b) == (a * b) \div Scale

Div(a, b) == (a * Scale) \div b

Abs(a) == IF a < 0 THEN -a ELSE a

\* Math.sqrt: the largest r with r * r <= a (exact on the model's inputs),
\* found by bisection between lo and hi.
RECURSIVE SqrtBetween(_, _, _)
SqrtBetween(lo, hi, n) ==
    IF lo >= hi THEN lo
    ELSE LET mid == (lo + hi + 1) \div 2
         IN  IF mid <= n \div mid THEN SqrtBetween(mid, hi, n) ELSE SqrtBetween(lo, mid - 1, n)

Sqrt(a) == SqrtBetween(0, a + Scale, a * Scale)

\* The numbers that are not finite.  No arithmetic of the model is applied
\* to them: they are tested for, and carried in arrays.
Infinity == 1000 * 1000 * Scale

NaN == -Infinity - 1

isNaN(v) == v = NaN

isFinite(v) == v # NaN /\ v # Infinity

\* An angle no computation of the model produces: the result of a
\* trigonometric function outside the right angles the model tabulates.
OffTable == 999 * Scale

\* Math.atan2, in degrees, on the axes.
Atan2Deg(y, x) ==
    IF y = 0 THEN (IF x >= 0 THEN 0 ELSE 180 * Scale)
    ELSE IF x = 0 THEN (IF y > 0 THEN 90 * Scale ELSE -(90 * Scale))
    ELSE OffTable

\* Math.asin, in degrees: of 0, of 1 and -1, NaN outside [-1, 1].
AsinDeg(s) ==
    IF s = 0 THEN 0
    ELSE IF s > Scale \/ s < -Scale THEN NaN
    ELSE IF s = Scale THEN 90 * Scale
    ELSE IF s = -Scale THEN -(90 * Scale)
    ELSE OffTable

Sign(a) == IF a > 0 THEN 1 ELSE IF a < 0 THEN -1 ELSE 0

\* Math.cos and Math.sin of an angle in degrees, on the right angles.
CosDeg(a) ==
    CASE a = 0 -> Scale
      [] Abs(a) = 90 * Scale -> 0
      [] Abs(a) = 180 * Scale -> -Scale
      [] OTHER -> OffTable

SinDeg(a) ==
    CASE a = 0 \/ Abs(a) = 180 * Scale -> 0
      [] a = 90 * Scale -> Scale
      [] a = -(90 * Scale) -> -Scale
      [] OTHER -> OffTable

\* ------------------------------------------------- rotation math (backend)

Identity3 == << <<Scale, 0, 0>>, <<0, Scale, 0>>, <<0, 0, Scale>> >>

IdentityQuat == <<0, 0, 0, Scale>>

IsMatrix(m, rows, cols) ==
    /\ Len(m) = rows
    /\ \A i \in 1..rows : Len(m[i]) = cols

\* math.multiply(A, B) of two 3x3 arrays.
matrixMultiply(a, b) ==
    [i \in 1..3 |-> [j \in 1..3 |->
        Mul(a[i][1], b[1][j]) + Mul(a[i][2], b[2][j]) + Mul(a[i][3], b[3][j])]]

\* math.multiply(A, v) of a 3x3 array and a 3-vector.
matrixVectorMultiply(m, v) ==
    [i \in 1..3 |-> Mul(m[i][1], v[1]) + Mul(m[i][2], v[2]) + Mul(m[i][3], v[3])]

transposeMatrix(m) == [i \in 1..3 |-> [j \in 1..3 |-> m[j][i]]]

quaternionToRotationMatrix(q) ==
    LET x == q[1]
        y == q[2]
        z == q[3]
        w == q[4]
        xx == Mul(x, x)
        xy == Mul(x, y)
        xz == Mul(x, z)
        xw == Mul(x, w)
        yy == Mul(y, y)
        yz == Mul(y, z)
        yw == Mul(y, w)
        zz == Mul(z, z)
        zw == Mul(z, w)
    IN  << <<Scale - 2 * (yy + zz), 2 * (xy - zw), 2 * (xz + yw)>>,
           <<2 * (xy + zw), Scale - 2 * (xx + zz), 2 * (yz - xw)>>,
           <<2 * (xz - yw), 2 * (yz + xw), Scale - 2 * (xx + yy)>> >>

\* A rotationMatrixToQuaternion whose first branch takes half of S, not a
\* quarter, for w.
rotationMatrixToQuaternionHalfS(m) ==
    LET trace == m[1][1] + m[2][2] + m[3][3]
        S == Sqrt(Abs(trace) + Scale) * 2
    IN  << Div(m[3][2] - m[2][3], S), Div(m[1][3] - m[3][1], S),
           Div(m[2][1] - m[1][2], S), Mul(Scale \div 2, S) >>

\* A rotationMatrixToQuaternion whose last branch takes the differences of
\* the first branch for x and y.
rotationMatrixToQuaternionLastBranch(m) ==
    LET trace == m[1][1] + m[2][2] + m[3][3] IN
    IF trace > 0 THEN
        LET S == Sqrt(trace + Scale) * 2 IN
        << Div(m[3][2] - m[2][3], S), Div(m[1][3] - m[3][1], S),
           Div(m[2][1] - m[1][2], S), Mul(Scale \div 4, S) >>
    ELSE IF m[1][1] > m[2][2] /\ m[1][1] > m[3][3] THEN
        LET S == Sqrt(Scale + m[1][1] - m[2][2] - m[3][3]) * 2 IN
        << Mul(Scale \div 4, S), Div(m[1][2] + m[2][1], S),
           Div(m[1][3] + m[3][1], S), Div(m[3][2] - m[2][3], S) >>
    ELSE IF m[2][2] > m[3][3] THEN
        LET S == Sqrt(Scale + m[2][2] - m[1][1] - m[3][3]) * 2 IN
        << Div(m[1][2] + m[2][1], S), Mul(Scale \div 4, S),
           Div(m[2][3] + m[3][2], S), Div(m[1][3] - m[3][1], S) >>
    ELSE
        LET S == Sqrt(Scale + m[3][3] - m[1][1] - m[2][2]) * 2 IN
        << Div(m[3][2] - m[2][3], S), Div(m[1][3] - m[3][1], S),
           Mul(Scale \div 4, S), Div(m[2][1] - m[1][2], S) >>

rotationMatrixToQuaternion(m) ==
    LET trace == m[1][1] + m[2][2] + m[3][3] IN
    IF trace > 0 THEN
        LET S == Sqrt(trace + Scale) * 2 IN
        << Div(m[3][2] - m[2][3], S), Div(m[1][3] - m[3][1], S),
           Div(m[2][1] - m[1][2], S), Mul(Scale \div 4, S) >>
    ELSE IF m[1][1] > m[2][2] /\ m[1][1] > m[3][3] THEN
        LET S == Sqrt(Scale + m[1][1] - m[2][2] - m[3][3]) * 2 IN
        << Mul(Scale \div 4, S), Div(m[1][2] + m[2][1], S),
           Div(m[1][3] + m[3][1], S), Div(m[3][2] - m[2][3], S) >>
    ELSE IF m[2][2] > m[3][3] THEN
        LET S == Sqrt(Scale + m[2][2] - m[1][1] - m[3][3]) * 2 IN
        << Div(m[1][2] + m[2][1], S), Mul(Scale \div 4, S),
           Div(m[2][3] + m[3][2], S), Div(m[1][3] - m[3][1], S) >>
    ELSE
        LET S == Sqrt(Scale + m[3][3] - m[1][1] - m[2][2]) * 2 IN
        << Div(m[1][3] + m[3][1], S), Div(m[2][3] + m[3][2], S),
           Mul(Scale \div 4, S), Div(m[2][1] - m[1][2], S) >>

\* A quaternionToEuler that takes the arc sine of sinp whatever it is.
quaternionToEulerUnclamped(q) ==
    LET x == q[1]
        y == q[2]
        z == q[3]
        w == q[4]
    IN  << Atan2Deg(2 * (Mul(w, x) + Mul(y, z)), Scale - 2 * (Mul(x, x) + Mul(y, y))),
           AsinDeg(2 * (Mul(w, y) - Mul(z, x))),
           Atan2Deg(2 * (Mul(w, z) + Mul(x, y)), Scale - 2 * (Mul(y, y) + Mul(z, z))) >>

\* [roll, pitch, yaw] in degrees.
quaternionToEuler(q) ==
    LET x == q[1]
        y == q[2]
        z == q[3]
        w == q[4]
        sinr_cosp == 2 * (Mul(w, x) + Mul(y, z))
        cosr_cosp == Scale - 2 * (Mul(x, x) + Mul(y, y))
        sinp == 2 * (Mul(w, y) - Mul(z, x))
        siny_cosp == 2 * (Mul(w, z) + Mul(x, y))
        cosy_cosp == Scale - 2 * (Mul(y, y) + Mul(z, z))
    IN  << Atan2Deg(sinr_cosp, cosr_cosp),
           IF Abs(sinp) >= Scale THEN Sign(sinp) * 90 * Scale ELSE AsinDeg(sinp),
           Atan2Deg(siny_cosp, cosy_cosp) >>

\* DataProcessor.quaternionToEulerRadians.  The model holds every angle in
\* degrees, so it has the values of quaternionToEuler.
quaternionToEulerRadians(q) == quaternionToEuler(q)

\* DataProcessor.eulerToQuaternion of [roll, pitch, yaw].
eulerToQuaternion(euler) ==
    LET cr == CosDeg(euler[1] \div 2)
        sr == SinDeg(euler[1] \div 2)
        cp == CosDeg(euler[2] \div 2)
        sp == SinDeg(euler[2] \div 2)
        cy == CosDeg(euler[3] \div 2)
        sy == SinDeg(euler[3] \div 2)
    IN  << Mul(Mul(sr, cp), cy) - Mul(Mul(cr, sp), sy),
           Mul(Mul(cr, sp), cy) + Mul(Mul(sr, cp), sy),
           Mul(Mul(cr, cp), sy) - Mul(Mul(sr, sp), cy),
           Mul(Mul(cr, cp), cy) + Mul(Mul(sr, sp), sy) >>

\* An inverseQuaternion that negates w as well.
inverseQuaternionNegatesAll(q) == << -q[1], -q[2], -q[3], -q[4] >>

inverseQuaternion(q) == << -q[1], -q[2], -q[3], q[4] >>

quaternionMultiply(q1, q2) ==
    LET x1 == q1[1]
        y1 == q1[2]
        z1 == q1[3]
        w1 == q1[4]
        x2 == q2[1]
        y2 == q2[2]
        z2 == q2[3]
        w2 == q2[4]
    IN  << Mul(w1, x2) + Mul(x1, w2) + Mul(y1, z2) - Mul(z1, y2),
           Mul(w1, y2) - Mul(x1, z2) + Mul(y1, w2) + Mul(z1, x2),
           Mul(w1, z2) + Mul(x1, y2) - Mul(y1, x2) + Mul(z1, w2),
           Mul(w1, w2) - Mul(x1, x2) - Mul(y1, y2) - Mul(z1, z2) >>

getVisualizationQuaternion(worldQuaternion, referenceQuat) ==
    quaternionMultiply(inverseQuaternion(referenceQuat), worldQuaternion)

\* ------------------------------------------------------------ JS objects

\* {...a, ...b}: the fields of b, and those of a that b does not have.
Spread(a, b) ==
    [f \in (DOMAIN a) \cup (DOMAIN b) |-> IF f \in DOMAIN b THEN b[f] ELSE a[f]]

\* The object without property f (f is undefined in it).
Without(a, f) == [g \in (DOMAIN a) \ {f} |-> a[g]]

\* The empty object {}.
EmptyObject == [k \in {} |-> 0]

\* ---------------------------------------------- wire payloads and parsing

Observers == {"A", "B"}

\* Device names that an iOS sender puts on the wire ("tablet" is not in the
\* device table).
IOSNames == {"phone", "tablet"}

RotX180 == <<Scale, 0, 0, 0>>

Gravity == 981

Accels == {<<0, 0, Gravity>>}

\* A token of a payload, the text between two runs of white space: the
\* digits of a number, or a text that starts with no digit ("abc",
\* "Infinity"), or the digits of a number followed by letters ("7abc").
Num(n) == [num |-> n]

Word(t) == [text |-> t]

NumWord(n, t) == [num |-> n, text |-> t]

Nums(values) == [i \in 1..Len(values) |-> Num(values[i])]

\* parseFloat of a token: the number of its leading digits, Infinity for the
\* text "Infinity", NaN for any other text.
parseFloat(token) ==
    IF "num" \in DOMAIN token THEN token.num
    ELSE IF token.text = "Infinity" THEN Infinity
    ELSE NaN

\* A payload is the text head name tokens, where head is its delimiters:
\*   "a;b:"  device id ; device name : tokens     (the iOS format)
\*   "a;b"   device id ; device name, no colon
\*   "a b:"  device name : tokens, no semicolon
\*   "a:b;"  the two delimiters in the other order
\*   ""      tokens only                          (the AR glasses format)
\* and, with a device id that starts with a digit ("7f3a"),
\*   "7;b:"  device id ; device name : tokens
\*   "7:b;"  the two delimiters in the other order
Heads == {"a;b:", "a;b", "a b:", "a:b;", "", "7;b:", "7:b;"}

Message(head, name, tokens) == [head |-> head, name |-> name, tokens |-> tokens]

EmptyMessage == Message("", "", <<>>)

HasSemicolon(message) == message.head \in {"a;b:", "a;b", "a:b;", "7;b:", "7:b;"}

HasColon(message) == message.head \in {"a;b:", "a b:", "a:b;", "7;b:", "7:b;"}

\* message.trim().split(/\s+/): a head is a text of its own ("a;b"), or
\* is joined to the first token ("a;b:", "a:b;"), or both ("a b:").  The
\* part that a head with a device id of digits is joined to starts with
\* these digits.
Parts(message) ==
    LET rest == IF message.tokens = <<>> THEN <<>> ELSE Tail(message.tokens) IN
    CASE message.head = "" -> message.tokens
      [] message.head = "a;b" -> <<Word("id;name")>> \o message.tokens
      [] message.head = "a b:" -> <<Word("id"), Word("name:")>> \o rest
      [] message.head = "7;b:" -> <<NumWord(7, "f3a;name:")>> \o rest
      [] message.head = "7:b;" -> <<NumWord(7, "f3a:name;")>> \o rest
      [] OTHER -> <<Word("id;name:")>> \o rest

\* String.toLowerCase on the device names of the model.
toLowerCase(name) ==
    CASE name = "iPhone" -> "iphone"
      [] name = "Watch" -> "watch"
      [] OTHER -> name

\* What an iOS sender and the AR glasses put on the wire for a sample.
IOSWire(name, ts, acc, quat) == Message("a;b:", name, Nums(<<ts, ts>> \o acc \o quat))

ARWire(ts, acc, quat) == Message("", "", Nums(<<ts, ts>> \o quat \o acc))

\* The datagrams that arrive.  ts is the sender's first timestamp; the
\* model uses the arrival number for it, so that every sample is told from
\* the others.
Payloads(ts) ==
    {IOSWire(name, ts, acc, RotX180) : name \in IOSNames, acc \in Accels}
    \cup {ARWire(ts, acc, IdentityQuat) : acc \in Accels}
    \cup {Message("", "", <<Word("garbage")>>)}

\* The result of a function that may return null.
Null == [null |-> TRUE]

parseIOSMessage(message) ==
    IF message.head \notin {"a;b:", "7;b:"} THEN Null
    ELSE LET parsed == [i \in 1..Len(message.tokens) |-> parseFloat(message.tokens[i])]
             dataValues == SelectSeq(parsed, isFinite)
         IN  IF Len(dataValues) < 9 THEN Null
             ELSE [device_id |-> IF message.head = "7;b:" THEN "7f3a" ELSE "id",
                   device_name |-> toLowerCase(message.name),
                   timestamps |-> SubSeq(dataValues, 1, 2),
                   accelerometer |-> SubSeq(dataValues, 3, 5),
                   quaternion |-> SubSeq(dataValues, 6, 9),
                   gyroscope |-> IF Len(dataValues) >= 12 THEN SubSeq(dataValues, 10, 12)
                                 ELSE <<0, 0, 0>>]

parseARGlassesMessage(message) ==
    LET parts == Parts(message)
        value(i) == parseFloat(parts[i])
    IN  IF Len(parts) < 9 THEN Null
        ELSE IF \E i \in 1..9 : isNaN(value(i)) THEN Null
        ELSE [device_name |-> "glasses",
              timestamps |-> <<value(1), value(2)>>,
              accelerometer |-> <<value(7), value(8), value(9)>>,
              quaternion |-> <<value(3), value(4), value(5), value(6)>>,
              gyroscope |-> [i \in 1..3 |->
                                IF Len(parts) >= 12 /\ ~isNaN(value(9 + i))
                                THEN value(9 + i) ELSE 0]]

\* UDPReceiver.classifyAndParseMessage, and the arguments of the 'data'
\* event that handleIncomingMessage emits for its result.
classifyAndParseMessage(messageStr) ==
    LET parts == Parts(messageStr)
        ios == parseIOSMessage(messageStr)
        ar == parseARGlassesMessage(messageStr)
        allNumeric == Len(parts) >= 9 /\ \A i \in 1..9 : isFinite(parseFloat(parts[i]))
        unityStyle == Len(parts) >= 9 /\ \A i \in 1..Len(parts) : ~isNaN(parseFloat(parts[i]))
    IN  IF HasSemicolon(messageStr) /\ HasColon(messageStr) /\ ios # Null
        THEN [deviceType |-> "ios", rawData |-> ios]
        ELSE IF (allNumeric \/ unityStyle) /\ ar # Null
        THEN [deviceType |-> "ar_glasses", rawData |-> ar]
        ELSE [deviceType |-> "unknown", rawData |-> [raw |-> messageStr]]

validateSensorData(data) ==
    /\ "accelerometer" \in DOMAIN data
    /\ "quaternion" \in DOMAIN data
    /\ "timestamps" \in DOMAIN data
    /\ Len(data.accelerometer) = 3
    /\ Len(data.quaternion) = 4
    /\ \A i \in 1..3 : isFinite(data.accelerometer[i])
    /\ \A i \in 1..4 : isFinite(data.quaternion[i])
    /\ "gyroscope" \in DOMAIN data =>
           \A i \in 1..Len(data.gyroscope) : isFinite(data.gyroscope[i])

\* ------------------------------------------------- device data processor

useARAsHeadphone == TRUE

\* DataProcessor.getDeviceIndex: the index, or -1 for null.
NullIndex == -1

\* A getDeviceIndex that takes a name outside the table for the phone.
getDeviceIndexDefaultsToPhone(deviceName) ==
    CASE deviceName \in {"watch", "applewatch"} -> 1
      [] deviceName \in {"headphone", "airpods", "glasses", "arglasses"} -> 2
      [] OTHER -> 0

getDeviceIndex(deviceName) ==
    LET name == toLowerCase(deviceName) IN
    CASE name \in {"phone", "iphone"} -> 0
      [] name \in {"watch", "applewatch"} -> 1
      [] name \in {"headphone", "airpods", "glasses", "arglasses"} -> 2
      [] OTHER -> NullIndex

\* getDeviceIndex of data-parser.js: deviceIndices[normalized] || null, where
\* the index 0 is falsy as is the undefined of a name outside the table.
DataParser_getDeviceIndex(deviceName) ==
    LET deviceIndex == getDeviceIndex(deviceName)
    IN  IF deviceIndex = NullIndex \/ deviceIndex = 0 THEN NullIndex ELSE deviceIndex

gravityWorld == <<0, 0, -Gravity>>

\* The applyARGlassesTransformations that returns, for the acceleration of
\* the sample, the acceleration with gravity removed and its axes turned.
applyARGlassesTransformationsTurned(acc, quat) ==
    LET rotationMatrixInv == transposeMatrix(quaternionToRotationMatrix(quat))
        gravityDevice == matrixVectorMultiply(rotationMatrixInv, <<0, 0, Gravity>>)
        transformedAcc == << acc[1] - gravityDevice[1], acc[2] - gravityDevice[2],
                             acc[3] - gravityDevice[3] >>
    IN  [rawAcc |-> << -transformedAcc[1], transformedAcc[3], -transformedAcc[2] >>,
         linearAcc |-> transformedAcc,
         processedQuat |-> quat]

applyARGlassesTransformations(acc, quat) ==
    LET rotationMatrixInv == transposeMatrix(quaternionToRotationMatrix(quat))
        gravityDevice == matrixVectorMultiply(rotationMatrixInv, gravityWorld)
    IN  [rawAcc |-> acc,
         linearAcc |-> << acc[1] - gravityDevice[1], acc[2] - gravityDevice[2],
                          acc[3] - gravityDevice[3] >>,
         processedQuat |-> quat]

applyIOSTransformations(deviceName, accelerometer, quaternion) ==
    IF deviceName = "headphone"
    THEN LET euler == quaternionToEulerRadians(quaternion)
             fixedEuler == << -euler[1], euler[3], euler[2] >>
         IN  [processedAcc |-> << -accelerometer[1], accelerometer[3], accelerometer[2] >>,
              processedQuat |-> eulerToQuaternion(fixedEuler)]
    ELSE [processedAcc |-> accelerometer, processedQuat |-> quaternion]

processIOSData(rawData) ==
    LET deviceName == toLowerCase(rawData.device_name)
        deviceId == getDeviceIndex(deviceName)
        t == applyIOSTransformations(deviceName, rawData.accelerometer, rawData.quaternion)
    IN  IF deviceId = NullIndex THEN Null
        ELSE [device_id |-> deviceId, device_name |-> deviceName, device_type |-> "ios",
              timestamp |-> rawData.timestamps[1],
              accelerometer |-> t.processedAcc,
              gyroscope |-> rawData.gyroscope,
              has_gyro |-> "has_gyro" \in DOMAIN rawData,
              quaternion |-> t.processedQuat,
              raw_quaternion |-> rawData.quaternion,
              euler |-> quaternionToEuler(t.processedQuat)]

processARGlassesData(rawData) ==
    LET t == applyARGlassesTransformations(rawData.accelerometer, rawData.quaternion) IN
    [device_id |-> IF useARAsHeadphone THEN 2 ELSE 4,
     device_name |-> IF useARAsHeadphone THEN "headphone" ELSE "glasses",
     device_type |-> "ar_glasses",
     timestamp |-> rawData.timestamps[1],
     accelerometer |-> t.rawAcc,
     linear_acceleration |-> t.linearAcc,
     gyroscope |-> rawData.gyroscope,
     has_gyro |-> "has_gyro" \in DOMAIN rawData,
     quaternion |-> t.processedQuat,
     raw_quaternion |-> rawData.quaternion,
     euler |-> quaternionToEuler(t.processedQuat),
     calibration_applied |-> FALSE]

processDeviceData(deviceType, rawData) ==
    IF ~validateSensorData(rawData) THEN Null
    ELSE IF deviceType = "ios" THEN processIOSData(rawData)
    ELSE IF deviceType = "ar_glasses" THEN processARGlassesData(rawData)
    ELSE Null

DeviceKey(deviceData) ==
    IF deviceData.device_name = "phone" THEN "phone_0"
    ELSE IF deviceData.device_name = "watch" THEN "watch_1"
    ELSE "headphone_2"

DeviceKeys == {"phone_0", "watch_1", "headphone_2"}

\* ---------------------------------------------------------------- state

VARIABLES
    clients,        \* server.clients: the connected client ids, in insertion order
    readyState,     \* the readyState of each observer's server-side socket
    calibrations,   \* calibrationManager.calibrations: client id -> record
    sent,           \* the messages sent on each observer's current socket
    stats,          \* server.stats
    unusable,       \* the observers whose socket reads OPEN while a send on it raises
    fanout,         \* the last fan-out: its datagram, who was sent it, whose send raised
    packetCount,    \* udpReceiver.packetCount
    received,       \* control messages handled so far
    now,            \* Date.now() on the server, in hours since it started
    devices,        \* App: the devices state, device key -> entry
    selectedDevice, \* App: the selectedDevice state
    wsOpen,         \* App: wsRef.current is a socket whose readyState is OPEN
    wsOut,          \* App: the last message sent on wsRef.current
    calibrationParams, \* App: the calibrationParams state
    panels,         \* the CalibrationPanel instances mounted so far: state and refs
    mounted,        \* the index in panels of the mounted instance, 0 when none is
    timers,         \* the intervals set and not cleared, with what their closures hold
    starts,         \* the clicks that have started a countdown
    connection,     \* App: the WebSocket effect, its sockets and reconnect timeouts
    call,           \* a call of a function of the libraries: its name and arguments
    ret             \* what the call returned, once it has

serverVars == <<clients, readyState, calibrations, sent, stats, unusable, fanout,
                packetCount, received, now>>

frontVars == <<devices, selectedDevice, wsOpen, wsOut, calibrationParams, panels,
               mounted, timers, starts, connection>>

libVars == <<call, ret>>

vars == <<clients, readyState, calibrations, sent, stats, unusable, fanout,
          packetCount, received, now, devices, selectedDevice, wsOpen, wsOut,
          calibrationParams, panels, mounted, timers, starts, connection, call, ret>>

\* ------------------------------------------------------------ bounds

MaxDatagrams == 2

MaxMessages == 2

MaxMounts == 2

MaxHours == 2

MaxStarts == 2

MaxSockets == 3

\* ------------------------------------------------- calibration manager

BadMatrix == << <<Scale, 0>>, <<0, Scale>> >>

RotX180Matrix == quaternionToRotationMatrix(RotX180)

\* message.data of a 'calibration' message.
CalibrationData ==
    { [smpl2imu |-> RotX180Matrix, referenceDeviceId |-> "phone_0", referenceWorldQuat |-> RotX180],
      [smpl2imu |-> BadMatrix, referenceDeviceId |-> "phone_0", referenceWorldQuat |-> IdentityQuat],
      [smpl2imu |-> Identity3, referenceDeviceId |-> "phone_0"],
      [referenceDeviceId |-> "phone_0", referenceWorldQuat |-> IdentityQuat] }

\* message.data of a 'tpose_calibration' message.
TPoseData ==
    { [device2boneMatrices |-> [k \in {"phone_0", "headphone_2"} |-> Identity3],
       accOffsets |-> [k \in {"phone_0"} |-> <<0, 0, Gravity>>],
       linearAccOffsets |-> [k \in {"headphone_2"} |-> <<0, 0, Gravity>>]] }

\* The messages an observer can send: type, and data when it has any.
ClientMessages ==
    [type : {"calibration"}, data : CalibrationData]
    \cup [type : {"tpose_calibration"}, data : TPoseData]
    \cup {[type |-> "calibration"], [type |-> "tpose_calibration"]}
    \cup {[type |-> "reset_calibration"], [type |-> "ping"]}

\* The properties p of object o that are not undefined, as an object.
Pick(o, ps) == [f \in (DOMAIN o) \cap ps |-> o[f]]

\* A setCalibration that keeps one record for all the clients it knows.
setCalibrationForAll(cal, clientId, calibrationData) ==
    LET record == Spread(Pick(calibrationData, {"smpl2imu", "referenceDeviceId", "referenceWorldQuat"}),
                         [device2boneMatrices |-> EmptyObject, accOffsets |-> EmptyObject,
                          linearAccOffsets |-> EmptyObject, timestamp |-> now])
    IN  [c \in (DOMAIN cal) \cup {clientId} |-> record]

\* A setCalibration that keeps the T-pose data of the record it replaces.
setCalibrationKeepsTPose(cal, clientId, calibrationData) ==
    LET kept == IF clientId \in DOMAIN cal
                THEN Pick(cal[clientId], {"device2boneMatrices", "accOffsets", "linearAccOffsets",
                                          "isTPoseCalibrated"})
                ELSE EmptyObject
        record == Spread(Spread(Pick(calibrationData, {"smpl2imu", "referenceDeviceId", "referenceWorldQuat"}),
                                [device2boneMatrices |-> EmptyObject, accOffsets |-> EmptyObject,
                                 linearAccOffsets |-> EmptyObject, timestamp |-> now]),
                         kept)
    IN  [c \in (DOMAIN cal) \cup {clientId} |-> IF c = clientId THEN record ELSE cal[c]]

setCalibration(cal, clientId, calibrationData) ==
    LET record == Spread(Pick(calibrationData, {"smpl2imu", "referenceDeviceId", "referenceWorldQuat"}),
                         [device2boneMatrices |-> EmptyObject, accOffsets |-> EmptyObject,
                          linearAccOffsets |-> EmptyObject, timestamp |-> now])
    IN  [c \in (DOMAIN cal) \cup {clientId} |-> IF c = clientId THEN record ELSE cal[c]]

\* A setTPoseCalibration that stores the T-pose data in a new record when
\* the client has none.
setTPoseCalibrationCreatesRecord(cal, clientId, tposeData) ==
    [c \in (DOMAIN cal) \cup {clientId} |->
        IF c = clientId
        THEN Spread(IF c \in DOMAIN cal THEN cal[c] ELSE EmptyObject,
                    Spread(tposeData, [isTPoseCalibrated |-> TRUE]))
        ELSE cal[c]]

setTPoseCalibration(cal, clientId, tposeData) ==
    IF clientId \notin DOMAIN cal THEN cal
    ELSE LET calibration == cal[clientId]
             updated == Spread(Without(calibration, "device2boneMatrices"),
                          Spread(Pick(tposeData, {"device2boneMatrices"}),
                            [accOffsets |-> IF "accOffsets" \in DOMAIN tposeData
                                            THEN tposeData.accOffsets ELSE EmptyObject,
                             linearAccOffsets |-> IF "linearAccOffsets" \in DOMAIN tposeData
                                                  THEN tposeData.linearAccOffsets ELSE EmptyObject,
                             isTPoseCalibrated |-> TRUE]))
         IN  [cal EXCEPT ![clientId] = updated]

\* A clearCalibration that deletes the record when there is one and stores
\* an empty record when there is none.
clearCalibrationToggles(cal, clientId) ==
    IF clientId \in DOMAIN cal
    THEN [c \in (DOMAIN cal) \ {clientId} |-> cal[c]]
    ELSE [c \in (DOMAIN cal) \cup {clientId} |-> IF c = clientId THEN EmptyObject ELSE cal[c]]

\* A clearCalibration that forgets to delete the record.
clearCalibrationKeepsRecord(cal, clientId) == cal

clearCalibration(cal, clientId) == [c \in (DOMAIN cal) \ {clientId} |-> cal[c]]

\* The age in hours beyond which cleanup deletes a record (60 * 60 * 1000 ms).
calibrationTTL == 1

\* cleanup at time t: the records stored more than calibrationTTL before t
\* are deleted.
cleanup(cal, t) == [c \in {d \in DOMAIN cal : ~(cal[d].timestamp < t - calibrationTTL)} |-> cal[c]]

\* getCalibrationStatus(clientId).isCalibrated
getCalibrationStatus(cal, clientId) == clientId \in DOMAIN cal

\* getCalibrationStatus(clientId).isTPoseCalibrated
isTPoseCalibrated(cal, clientId) ==
    clientId \in DOMAIN cal /\ "isTPoseCalibrated" \in DOMAIN cal[clientId]

HasKey(o, f, k) == f \in DOMAIN o /\ k \in DOMAIN o[f]

\* Whether a step of the try block of applyCalibration throws: a
\* math.multiply of arrays whose dimensions do not match, or the read of
\* referenceQuat[0] of an undefined referenceWorldQuat.
applyCalibrationThrows(calibration, deviceData) ==
    LET deviceKey == DeviceKey(deviceData) IN
    \/ ~IsMatrix(calibration.smpl2imu, 3, 3)
    \/ /\ HasKey(calibration, "device2boneMatrices", deviceKey)
       /\ ~IsMatrix(calibration.device2boneMatrices[deviceKey], 3, 3)
    \/ "referenceWorldQuat" \notin DOMAIN calibration

\* An applyCalibration whose accelerations are turned by the device2bone
\* matrix as the orientation is.
applyCalibrationResultBoneOnAcceleration(calibration, deviceData) ==
    LET deviceKey == DeviceKey(deviceData)
        hasBone == HasKey(calibration, "device2boneMatrices", deviceKey)
        hasAcc == HasKey(calibration, "accOffsets", deviceKey)
        hasLin == HasKey(calibration, "linearAccOffsets", deviceKey)
        rotMatrix == quaternionToRotationMatrix(deviceData.quaternion)
        smplRot == matrixMultiply(calibration.smpl2imu, rotMatrix)
        worldRotMatrix == IF hasBone
                          THEN matrixMultiply(smplRot, calibration.device2boneMatrices[deviceKey])
                          ELSE smplRot
        worldQuaternion == rotationMatrixToQuaternion(worldRotMatrix)
        accTransformMatrix == worldRotMatrix
        Offset(v, o) == << v[1] - o[1], v[2] - o[2], v[3] - o[3] >>
        acc0 == matrixVectorMultiply(accTransformMatrix, deviceData.accelerometer)
        worldAccelerometer == IF hasAcc THEN Offset(acc0, calibration.accOffsets[deviceKey]) ELSE acc0
        lin0 == matrixVectorMultiply(accTransformMatrix, deviceData.linear_acceleration)
        worldLinear == IF hasLin THEN Offset(lin0, calibration.linearAccOffsets[deviceKey]) ELSE lin0
        added == [worldFrameQuaternion |-> worldQuaternion,
                  worldFrameQuatForViz |->
                      getVisualizationQuaternion(worldQuaternion, calibration.referenceWorldQuat),
                  worldFrameAccelerometer |-> worldAccelerometer,
                  worldFrameEuler |-> quaternionToEuler(worldQuaternion),
                  isCalibrated |-> TRUE,
                  hasAccOffset |-> hasAcc,
                  hasLinearAccOffset |-> hasLin]
    IN  Spread(deviceData,
               IF "linear_acceleration" \in DOMAIN deviceData
               THEN Spread(added, [worldFrameLinearAcceleration |-> worldLinear])
               ELSE added)

\* The object the try block of applyCalibration returns.
applyCalibrationResult(calibration, deviceData) ==
    LET deviceKey == DeviceKey(deviceData)
        hasBone == HasKey(calibration, "device2boneMatrices", deviceKey)
        hasAcc == HasKey(calibration, "accOffsets", deviceKey)
        hasLin == HasKey(calibration, "linearAccOffsets", deviceKey)
        rotMatrix == quaternionToRotationMatrix(deviceData.quaternion)
        smplRot == matrixMultiply(calibration.smpl2imu, rotMatrix)
        worldRotMatrix == IF hasBone
                          THEN matrixMultiply(smplRot, calibration.device2boneMatrices[deviceKey])
                          ELSE smplRot
        worldQuaternion == rotationMatrixToQuaternion(worldRotMatrix)
        accTransformMatrix == matrixMultiply(calibration.smpl2imu, rotMatrix)
        Offset(v, o) == << v[1] - o[1], v[2] - o[2], v[3] - o[3] >>
        acc0 == matrixVectorMultiply(accTransformMatrix, deviceData.accelerometer)
        worldAccelerometer == IF hasAcc THEN Offset(acc0, calibration.accOffsets[deviceKey]) ELSE acc0
        lin0 == matrixVectorMultiply(accTransformMatrix, deviceData.linear_acceleration)
        worldLinear == IF hasLin THEN Offset(lin0, calibration.linearAccOffsets[deviceKey]) ELSE lin0
        added == [worldFrameQuaternion |-> worldQuaternion,
                  worldFrameQuatForViz |->
                      getVisualizationQuaternion(worldQuaternion, calibration.referenceWorldQuat),
                  worldFrameAccelerometer |-> worldAccelerometer,
                  worldFrameEuler |-> quaternionToEuler(worldQuaternion),
                  isCalibrated |-> TRUE,
                  hasAccOffset |-> hasAcc,
                  hasLinearAccOffset |-> hasLin]
    IN  Spread(deviceData,
               IF "linear_acceleration" \in DOMAIN deviceData
               THEN Spread(added, [worldFrameLinearAcceleration |-> worldLinear])
               ELSE added)

\* What a call returns: a value, or an exception that leaves the callee.
Returns(v) == [threw |-> FALSE, value |-> v]

Throws == [threw |-> TRUE]

\* An applyCalibration that flags every sample, calibrated or not.
applyCalibrationAlwaysFlags(cal, clientId, deviceData) ==
    IF clientId \notin DOMAIN cal \/ "smpl2imu" \notin DOMAIN cal[clientId]
    THEN Returns(Spread(deviceData, [isCalibrated |-> FALSE]))
    ELSE IF applyCalibrationThrows(cal[clientId], deviceData)
         THEN Returns(deviceData)
         ELSE Returns(applyCalibrationResult(cal[clientId], deviceData))

\* An applyCalibration without its try/catch.
applyCalibrationNoCatch(cal, clientId, deviceData) ==
    IF clientId \notin DOMAIN cal \/ "smpl2imu" \notin DOMAIN cal[clientId]
    THEN Returns(deviceData)
    ELSE IF applyCalibrationThrows(cal[clientId], deviceData)
         THEN Throws
         ELSE Returns(applyCalibrationResult(cal[clientId], deviceData))

applyCalibration(cal, clientId, deviceData) ==
    IF clientId \notin DOMAIN cal \/ "smpl2imu" \notin DOMAIN cal[clientId]
    THEN Returns(deviceData)
    ELSE IF applyCalibrationThrows(cal[clientId], deviceData)
         THEN Returns(deviceData)
         ELSE Returns(applyCalibrationResult(cal[clientId], deviceData))

\* ------------------------------------------------------------- server

ClientSet == {clients[i] : i \in 1..Len(clients)}

\* Map.delete on the client map: the order of the others is kept.
RemoveClient(cs, clientId) == SelectSeq(cs, LAMBDA c : c # clientId)

\* wss.on('connection'): the client is stored and sent the welcome message.
Connect(c) ==
    /\ readyState[c] = "CLOSED"
    /\ readyState' = [readyState EXCEPT ![c] = "OPEN"]
    /\ clients' = IF c \in ClientSet THEN clients ELSE Append(clients, c)
    /\ stats' = [stats EXCEPT !.clients = Len(clients')]
    /\ sent' = [sent EXCEPT ![c] = <<[type |-> "connection", clientId |-> c]>>]
    /\ UNCHANGED <<calibrations, unusable, fanout, packetCount, received>>
    /\ UNCHANGED now
    /\ UNCHANGED frontVars
    /\ UNCHANGED libVars

\* The socket leaves OPEN (a close frame is under way); its 'close' event
\* has not been emitted yet.
BeginClose(c) ==
    /\ readyState[c] = "OPEN"
    /\ readyState' = [readyState EXCEPT ![c] = "CLOSING"]
    /\ unusable' = unusable \ {c}
    /\ UNCHANGED <<clients, calibrations, sent, stats, fanout, packetCount, received>>
    /\ UNCHANGED now
    /\ UNCHANGED frontVars
    /\ UNCHANGED libVars

\* The transport of an open socket becomes unusable: a send on it raises.
Break(c) ==
    /\ readyState[c] = "OPEN"
    /\ c \notin unusable
    /\ unusable' = unusable \cup {c}
    /\ UNCHANGED <<clients, readyState, calibrations, sent, stats, fanout, packetCount, received>>
    /\ UNCHANGED now
    /\ UNCHANGED frontVars
    /\ UNCHANGED libVars

\* ws.on('close')
OnClose(c) ==
    /\ readyState[c] \in {"OPEN", "CLOSING"}
    /\ readyState' = [readyState EXCEPT ![c] = "CLOSED"]
    /\ clients' = RemoveClient(clients, c)
    /\ calibrations' = clearCalibration(calibrations, c)
    /\ stats' = [stats EXCEPT !.clients = Len(clients')]
    /\ sent' = [sent EXCEPT ![c] = <<>>]
    /\ unusable' = unusable \ {c}
    /\ UNCHANGED <<fanout, packetCount, received>>
    /\ UNCHANGED now
    /\ UNCHANGED frontVars
    /\ UNCHANGED libVars

\* ws.on('error'): the socket is closing from here on, its 'close' event follows.
OnError(c) ==
    /\ readyState[c] \in {"OPEN", "CLOSING"}
    /\ c \in ClientSet
    /\ readyState' = [readyState EXCEPT ![c] = "CLOSING"]
    /\ clients' = RemoveClient(clients, c)
    /\ calibrations' = clearCalibration(calibrations, c)
    /\ stats' = [stats EXCEPT !.clients = Len(clients')]
    /\ unusable' = unusable \ {c}
    /\ UNCHANGED <<sent, fanout, packetCount, received>>
    /\ UNCHANGED now
    /\ UNCHANGED frontVars
    /\ UNCHANGED libVars

\* A confirmation that is broadcast to every client with an open socket.
SendConfirmationToAll(clientId, type) ==
    [c \in Observers |->
        IF c \in ClientSet /\ readyState[c] = "OPEN" /\ c \notin unusable
        THEN Append(sent[c], [type |-> type, clientId |-> clientId])
        ELSE sent[c]]

\* client.ws.send of a confirmation in handleClientMessage.  A send that
\* raises leaves handleClientMessage and is caught by ws.on('message').
SendConfirmation(clientId, type) ==
    IF clientId \in ClientSet /\ readyState[clientId] = "OPEN" /\ clientId \notin unusable
    THEN [sent EXCEPT ![clientId] = Append(@, [type |-> type, clientId |-> clientId])]
    ELSE sent

\* ws.on('message') with handleClientMessage.
handleClientMessage(clientId, message) ==
    CASE message.type = "calibration" ->
            IF "data" \notin DOMAIN message
            THEN UNCHANGED <<calibrations, sent>>
            ELSE /\ calibrations' = setCalibration(calibrations, clientId, message.data)
                 /\ sent' = SendConfirmation(clientId, "calibration_confirmed")
      [] message.type = "tpose_calibration" ->
            IF "data" \notin DOMAIN message /\ clientId \in DOMAIN calibrations
            THEN UNCHANGED <<calibrations, sent>>
            ELSE /\ calibrations' = IF "data" \in DOMAIN message
                                    THEN setTPoseCalibration(calibrations, clientId, message.data)
                                    ELSE calibrations
                 /\ sent' = SendConfirmation(clientId, "tpose_calibration_confirmed")
      [] message.type = "reset_calibration" ->
            /\ calibrations' = clearCalibration(calibrations, clientId)
            /\ UNCHANGED sent
      [] OTHER -> UNCHANGED <<calibrations, sent>>

OnMessage(c, message) ==
    /\ readyState[c] = "OPEN"
    /\ received < MaxMessages
    /\ received' = received + 1
    /\ handleClientMessage(c, message)
    /\ UNCHANGED <<clients, readyState, stats, unusable, fanout, packetCount>>
    /\ UNCHANGED now
    /\ UNCHANGED frontVars
    /\ UNCHANGED libVars

\* The hourly interval of start(): an hour has passed and cleanup runs.
CleanupInterval ==
    /\ now < MaxHours
    /\ now' = now + 1
    /\ calibrations' = cleanup(calibrations, now')
    /\ UNCHANGED <<clients, readyState, sent, stats, unusable, fanout, packetCount, received>>
    /\ UNCHANGED frontVars
    /\ UNCHANGED libVars

\* A forEach whose send is not wrapped in try/catch: a send that raises
\* leaves the callback.
RECURSIVE FanOutNoSendCatch(_, _, _, _)
FanOutNoSendCatch(i, deviceType, processedData, acc) ==
    IF i > Len(clients) THEN acc
    ELSE LET clientId == clients[i]
             dataToSend == applyCalibration(calibrations, clientId, processedData)
             message == [type |-> "imu_data", deviceType |-> deviceType, data |-> dataToSend.value]
         IN  IF dataToSend.threw THEN [acc EXCEPT !.threw = TRUE]
             ELSE IF readyState[clientId] # "OPEN"
                  THEN FanOutNoSendCatch(i + 1, deviceType, processedData, acc)
             ELSE IF clientId \in unusable
                  THEN [acc EXCEPT !.raised = @ \cup {clientId}, !.threw = TRUE]
                  ELSE FanOutNoSendCatch(i + 1, deviceType, processedData,
                              [acc EXCEPT !.sent[clientId] = Append(@, message),
                                          !.delivered = @ \cup {clientId}])

\* A forEach that sends each message a second time to the first client.
RECURSIVE FanOutSendsTwice(_, _, _, _)
FanOutSendsTwice(i, deviceType, processedData, acc) ==
    IF i > Len(clients) THEN acc
    ELSE LET clientId == clients[i]
             dataToSend == applyCalibration(calibrations, clientId, processedData)
             message == [type |-> "imu_data", deviceType |-> deviceType, data |-> dataToSend.value]
         IN  IF dataToSend.threw THEN [acc EXCEPT !.threw = TRUE]
             ELSE IF readyState[clientId] # "OPEN"
                  THEN FanOutSendsTwice(i + 1, deviceType, processedData, acc)
             ELSE IF clientId \in unusable
                  THEN FanOutSendsTwice(i + 1, deviceType, processedData,
                              [acc EXCEPT !.raised = @ \cup {clientId}])
                  ELSE FanOutSendsTwice(i + 1, deviceType, processedData,
                              [acc EXCEPT !.sent[clientId] =
                                              IF i = 1 THEN Append(Append(@, message), message)
                                              ELSE Append(@, message),
                                          !.delivered = @ \cup {clientId}])

\* A forEach in which applyCalibration writes its fields into the sample it
\* is given: each client after the first is handed the sample as the
\* client before it left it.
RECURSIVE FanOutOnSharedSample(_, _, _, _)
FanOutOnSharedSample(i, deviceType, processedData, acc) ==
    IF i > Len(clients) THEN acc
    ELSE LET clientId == clients[i]
             dataToSend == applyCalibration(calibrations, clientId, processedData)
             message == [type |-> "imu_data", deviceType |-> deviceType, data |-> dataToSend.value]
         IN  IF dataToSend.threw THEN [acc EXCEPT !.threw = TRUE]
             ELSE IF readyState[clientId] # "OPEN"
                  THEN FanOutOnSharedSample(i + 1, deviceType, dataToSend.value, acc)
             ELSE IF clientId \in unusable
                  THEN FanOutOnSharedSample(i + 1, deviceType, dataToSend.value,
                              [acc EXCEPT !.raised = @ \cup {clientId}])
                  ELSE FanOutOnSharedSample(i + 1, deviceType, dataToSend.value,
                              [acc EXCEPT !.sent[clientId] = Append(@, message),
                                          !.delivered = @ \cup {clientId}])

\* The forEach of handleIMUData from client i on.  acc holds what the loop
\* has done so far; an exception that leaves the callback ends the loop.
RECURSIVE FanOut(_, _, _, _)
FanOut(i, deviceType, processedData, acc) ==
    IF i > Len(clients) THEN acc
    ELSE LET clientId == clients[i]
             dataToSend == applyCalibration(calibrations, clientId, processedData)
             message == [type |-> "imu_data", deviceType |-> deviceType, data |-> dataToSend.value]
         IN  IF dataToSend.threw THEN [acc EXCEPT !.threw = TRUE]
             ELSE IF readyState[clientId] # "OPEN" THEN FanOut(i + 1, deviceType, processedData, acc)
             ELSE IF clientId \in unusable
                  THEN FanOut(i + 1, deviceType, processedData,
                              [acc EXCEPT !.raised = @ \cup {clientId}])
                  ELSE FanOut(i + 1, deviceType, processedData,
                              [acc EXCEPT !.sent[clientId] = Append(@, message),
                                          !.delivered = @ \cup {clientId}])

handleIMUData(deviceType, rawData) ==
    LET processedData == processDeviceData(deviceType, rawData) IN
    IF processedData = Null
    THEN /\ stats' = [stats EXCEPT !.errors = @ + 1]
         /\ UNCHANGED <<sent, fanout>>
    ELSE LET done == FanOut(1, deviceType, processedData,
                            [sent |-> sent, delivered |-> {}, raised |-> {}, threw |-> FALSE])
         IN  /\ stats' = [stats EXCEPT ![deviceType] = @ + 1,
                                       !.errors = IF done.threw THEN @ + 1 ELSE @]
             /\ sent' = done.sent
             /\ fanout' = [timestamp |-> processedData.timestamp, data |-> processedData,
                           delivered |-> done.delivered, raised |-> done.raised]

\* socket.on('message') of the UDP receiver: handleIncomingMessage, the
\* 'data' event and its listener handleIMUData.
handleIncomingMessage(p) ==
    /\ packetCount < MaxDatagrams
    /\ packetCount' = packetCount + 1
    /\ IF p = EmptyMessage
       THEN UNCHANGED <<stats, sent, fanout>>
       ELSE LET e == classifyAndParseMessage(p) IN handleIMUData(e.deviceType, e.rawData)
    /\ UNCHANGED <<clients, readyState, calibrations, unusable, received>>
    /\ UNCHANGED now
    /\ UNCHANGED frontVars
    /\ UNCHANGED libVars

\* ------------------------------------------------- frontend: math utils

\* A multiset of values, as the function value -> number of copies: the
\* content of an array whose order the code does not read.
BagAdd(bag, e) ==
    [x \in (DOMAIN bag) \cup {e} |->
        IF x \in DOMAIN bag THEN (IF x = e THEN bag[x] + 1 ELSE bag[x]) ELSE 1]

BagSize(bag) ==
    LET RECURSIVE Count(_)
        Count(S) == IF S = {} THEN 0
                    ELSE LET x == CHOOSE y \in S : TRUE IN bag[x] + Count(S \ {x})
    IN  Count(DOMAIN bag)

\* A normalizeQuaternion that returns the quaternion as it is.
normalizeQuaternionLeavesLength(q) == q

normalizeQuaternion(q) ==
    LET magnitude == Sqrt(Mul(q[1], q[1]) + Mul(q[2], q[2]) + Mul(q[3], q[3]) + Mul(q[4], q[4]))
    IN  IF magnitude = 0 THEN IdentityQuat
        ELSE << Div(q[1], magnitude), Div(q[2], magnitude),
                Div(q[3], magnitude), Div(q[4], magnitude) >>

\* calculateAverageQuaternion(samples.map(s => s[field])) of a bag of samples.
calculateAverageQuaternion(samples, field) ==
    LET RECURSIVE Sum(_, _)
        Sum(S, k) ==
            IF S = {} THEN 0
            ELSE LET x == CHOOSE y \in S : TRUE
                     signCorrection == IF x[field][4] < 0 THEN -1 ELSE 1
                 IN  samples[x] * x[field][k] * signCorrection + Sum(S \ {x}, k)
    IN  IF DOMAIN samples = {} THEN IdentityQuat
        ELSE normalizeQuaternion([k \in 1..4 |-> Sum(DOMAIN samples, k)])

\* ------------------------------------------------------- frontend: App

\* selectedDevice when it is null.
NoDevice == "null"

\* The imu_data messages the server sends this observer: the phone's sample
\* as processed, and as calibrated under the record of a world-frame alignment.
ValidRecord ==
    [smpl2imu |-> RotX180Matrix, referenceDeviceId |-> "phone_0", referenceWorldQuat |-> RotX180,
     device2boneMatrices |-> EmptyObject, accOffsets |-> EmptyObject,
     linearAccOffsets |-> EmptyObject]

ImuMessages ==
    LET p == IOSWire("phone", 1, <<0, 0, Gravity>>, RotX180)
        processed == processDeviceData("ios", parseIOSMessage(p))
    IN  { [type |-> "imu_data", deviceType |-> "ios", data |-> processed],
          [type |-> "imu_data", deviceType |-> "ios",
           data |-> applyCalibrationResult(ValidRecord, processed)] }

\* handleIMUData of App: the entry of the device is replaced.  Of an entry
\* the model keeps what the calibration panel reads; the history buffers,
\* the sample count and the frequency are display data.
App_handleIMUData(message) ==
    LET data == message.data
        deviceKey == DeviceKey(data)
        updatedDevice == Spread(Pick(data, {"accelerometer", "quaternion", "worldFrameQuaternion"}),
                                [isActive |-> TRUE])
    IN  /\ devices' = [k \in (DOMAIN devices) \cup {deviceKey} |->
                          IF k = deviceKey THEN updatedDevice ELSE devices[k]]
        /\ UNCHANGED <<selectedDevice, wsOpen, wsOut, calibrationParams, panels, mounted, timers, starts>>
        /\ UNCHANGED serverVars
        /\ UNCHANGED connection
        /\ UNCHANGED libVars

ActiveDevices == {k \in DOMAIN devices : devices[k].isActive}

\* The clean-up interval of App: the devices not updated for five seconds
\* (stale, a non-empty set of active devices) are marked inactive.
MarkInactive(stale) ==
    /\ stale # {}
    /\ stale \subseteq ActiveDevices
    /\ devices' = [k \in DOMAIN devices |->
                      IF k \in stale THEN [devices[k] EXCEPT !.isActive = FALSE] ELSE devices[k]]
    /\ UNCHANGED <<selectedDevice, wsOpen, wsOut, calibrationParams, panels, mounted, timers, starts>>
    /\ UNCHANGED serverVars
    /\ UNCHANGED connection
    /\ UNCHANGED libVars

\* The WebSocket effect of App after it has run: connectWebSocket has
\* created the first socket, no reconnect timeout is set.  readyState is that
\* of wsRef.current, sockets the number of sockets created, pending the
\* timeouts set and neither run nor cleared (each named by the number of
\* the socket whose onclose set it), reconnectTimer the last one set (0 when
\* undefined), unmounted whether the cleanup of the effect has run.
Connecting ==
    [readyState |-> "CONNECTING", sockets |-> 1, pending |-> {}, reconnectTimer |-> 0,
     unmounted |-> FALSE]

\* websocket.onopen of App.
WsOnOpen ==
    /\ ~wsOpen
    /\ connection.readyState = "CONNECTING"
    /\ wsOpen' = TRUE
    /\ connection' = [connection EXCEPT !.readyState = "OPEN"]
    /\ UNCHANGED <<devices, selectedDevice, wsOut, calibrationParams, panels, mounted, timers, starts>>
    /\ UNCHANGED serverVars
    /\ UNCHANGED libVars

\* websocket.onclose of App: the socket has closed (the connection failed,
\* was lost, or was closed by close()), and a reconnect timeout is set.
WsOnClose ==
    /\ connection.readyState \in {"CONNECTING", "OPEN", "CLOSING"}
    /\ wsOpen' = FALSE
    /\ connection' = [connection EXCEPT !.readyState = "CLOSED",
                                        !.pending = @ \cup {connection.sockets},
                                        !.reconnectTimer = connection.sockets]
    /\ UNCHANGED <<devices, selectedDevice, wsOut, calibrationParams, panels, mounted, timers, starts>>
    /\ UNCHANGED serverVars
    /\ UNCHANGED libVars

\* The callback of a reconnect timeout: connectWebSocket creates a socket.
ReconnectTimeout(timer) ==
    /\ timer \in connection.pending
    /\ connection.sockets < MaxSockets
    /\ connection' = [connection EXCEPT !.pending = @ \ {timer},
                                        !.readyState = "CONNECTING",
                                        !.sockets = @ + 1]
    /\ wsOpen' = FALSE
    /\ UNCHANGED <<devices, selectedDevice, wsOut, calibrationParams, panels, mounted, timers, starts>>
    /\ UNCHANGED serverVars
    /\ UNCHANGED libVars

\* The cleanup of the WebSocket effect, when App is taken off the page:
\* clearTimeout(reconnectTimer) and wsRef.current.close().
AppCleanup ==
    /\ ~connection.unmounted
    /\ connection' = [connection EXCEPT
                         !.unmounted = TRUE,
                         !.pending = @ \ {connection.reconnectTimer},
                         !.readyState = IF @ \in {"CONNECTING", "OPEN"} THEN "CLOSING" ELSE @]
    /\ wsOpen' = FALSE
    /\ UNCHANGED <<devices, selectedDevice, wsOut, calibrationParams, panels, mounted, timers, starts>>
    /\ UNCHANGED serverVars
    /\ UNCHANGED libVars

\* A CalibrationPanel as first rendered.
NewPanel ==
    [calibrationStep |-> "idle", countdown |-> 3, samplesRef |-> EmptyObject,
     tposeSamplesRef |-> EmptyObject]

\* setSelectedDevice(next) and the render after it: the panel is rendered
\* while a device is selected; a panel rendered again after it was taken
\* off the page is a new instance.
setSelectedDevice(next) ==
    /\ selectedDevice' = next
    /\ IF next = NoDevice
       THEN mounted' = 0 /\ panels' = panels
       ELSE IF mounted # 0
            THEN UNCHANGED <<mounted, panels>>
            ELSE /\ Len(panels) < MaxMounts
                 /\ panels' = Append(panels, NewPanel)
                 /\ mounted' = Len(panels')
    /\ UNCHANGED <<devices, wsOpen, wsOut, calibrationParams, timers, starts>>
    /\ UNCHANGED serverVars
    /\ UNCHANGED connection
    /\ UNCHANGED libVars

\* Scene.handleDeviceClick: a click on an active device in the 3D scene.
handleDeviceClick(deviceKey) ==
    /\ deviceKey \in ActiveDevices
    /\ setSelectedDevice(IF selectedDevice = deviceKey THEN NoDevice ELSE deviceKey)

\* A click on the card of an active device in the overlay.
DeviceCardClick(deviceKey) ==
    /\ deviceKey \in ActiveDevices
    /\ selectedDevice # deviceKey
    /\ setSelectedDevice(deviceKey)

\* wsRef.current.send in the handlers of App, guarded by readyState === OPEN.
WsSend(message) == IF wsOpen THEN message ELSE wsOut

\* handleCalibrationComplete, handleTPoseCalibrationComplete and
\* handleCalibrationReset of App: the new wsOut and calibrationParams.
handleCalibrationComplete(calibrationData) ==
    [wsOut |-> WsSend([type |-> "calibration", data |-> calibrationData]),
     calibrationParams |-> [isCalibrated |-> TRUE,
                            referenceDeviceId |-> calibrationData.referenceDeviceId,
                            referenceWorldQuat |-> calibrationData.referenceWorldQuat]]

handleTPoseCalibrationComplete(tposeData) ==
    [wsOut |-> WsSend([type |-> "tpose_calibration", data |-> tposeData]),
     calibrationParams |-> Spread(calibrationParams,
                                  [isTPoseCalibrated |-> TRUE,
                                   device2boneMatrices |-> tposeData.device2boneMatrices])]

handleCalibrationReset ==
    [wsOut |-> WsSend([type |-> "reset_calibration"]),
     calibrationParams |-> [isCalibrated |-> FALSE, isTPoseCalibrated |-> FALSE]]

\* ------------------------------------------ frontend: CalibrationPanel

calibrationDuration == 3

samplingRate == 30

samplesToCollect == calibrationDuration * samplingRate

getWorldFrameButtonState(calibrationStep, selected) ==
    IF selected = NoDevice THEN "disabled"
    ELSE IF calibrationStep = "idle" THEN "available"
    ELSE IF calibrationStep \in {"worldFrameComplete", "complete"} THEN "done"
    ELSE "disabled"

getTPoseButtonState(calibrationStep) ==
    IF calibrationStep = "worldFrameComplete" THEN "available"
    ELSE IF calibrationStep = "complete" THEN "done"
    ELSE "disabled"

\* A Reset button that is disabled during the collection windows only.
ResetDisabledWhileCollecting(calibrationStep) ==
    calibrationStep \in {"inProgress", "tposeInProgress"}

\* The disabled attribute of the Reset button.
ResetDisabled(calibrationStep) ==
    calibrationStep \in {"worldFrame", "inProgress", "tposeCountdown", "tposeInProgress"}

\* A state setter of instance inst: it has an effect on a mounted instance only.
SetState(ps, inst, changes) ==
    IF inst = mounted THEN [ps EXCEPT ![inst] = Spread(@, changes)] ELSE ps

\* An assignment to the current of a ref of instance inst.
SetRef(ps, inst, changes) == [ps EXCEPT ![inst] = Spread(@, changes)]

\* An interval: its callback (kind), the instance that set it, the
\* sampleCount of its closure, the callbacks that have run and sampled
\* (ticks), and the props of the render whose handler set it.
Interval(kind, inst) ==
    [kind |-> kind, inst |-> inst, sampleCount |-> 0, ticks |-> 0,
     selectedDevice |-> selectedDevice, devices |-> devices]

\* clearInterval of the i-th interval.
ClearInterval(ts, i) == SubSeq(ts, 1, i - 1) \o SubSeq(ts, i + 1, Len(ts))

\* A click on the world-frame button of the mounted panel.
startWorldFrameCalibration ==
    /\ mounted # 0
    /\ getWorldFrameButtonState(panels[mounted].calibrationStep, selectedDevice) # "disabled"
    /\ panels' = SetRef(SetState(panels, mounted, [calibrationStep |-> "worldFrame", countdown |-> 3]),
                        mounted, [samplesRef |-> EmptyObject])
    /\ timers' = Append(timers, Interval("worldFrameCountdown", mounted))
    /\ starts < MaxStarts
    /\ starts' = starts + 1
    /\ UNCHANGED <<devices, selectedDevice, wsOpen, wsOut, calibrationParams, mounted>>
    /\ UNCHANGED serverVars
    /\ UNCHANGED connection
    /\ UNCHANGED libVars

\* A click on the T-pose button of the mounted panel.
startTPoseCalibration ==
    /\ mounted # 0
    /\ getTPoseButtonState(panels[mounted].calibrationStep) # "disabled"
    /\ panels' = SetRef(SetState(panels, mounted, [calibrationStep |-> "tposeCountdown", countdown |-> 3]),
                        mounted, [tposeSamplesRef |-> EmptyObject])
    /\ timers' = Append(timers, Interval("tposeCountdown", mounted))
    /\ starts < MaxStarts
    /\ starts' = starts + 1
    /\ UNCHANGED <<devices, selectedDevice, wsOpen, wsOut, calibrationParams, mounted>>
    /\ UNCHANGED serverVars
    /\ UNCHANGED connection
    /\ UNCHANGED libVars

\* A click on the Reset button of the mounted panel.
resetCalibration ==
    /\ mounted # 0
    /\ ~ResetDisabled(panels[mounted].calibrationStep)
    /\ panels' = SetRef(SetState(panels, mounted, [calibrationStep |-> "idle"]),
                        mounted, [samplesRef |-> EmptyObject, tposeSamplesRef |-> EmptyObject])
    /\ wsOut' = handleCalibrationReset.wsOut
    /\ calibrationParams' = handleCalibrationReset.calibrationParams
    /\ UNCHANGED <<devices, selectedDevice, wsOpen, mounted, timers, starts>>
    /\ UNCHANGED serverVars
    /\ UNCHANGED connection
    /\ UNCHANGED libVars

\* A callback of a countdown interval: setCountdown with its updater.  On a
\* mounted instance the updater runs on the countdown state.  On an instance
\* taken off the page the state is not updated any more, and the updater
\* itself is run (on the last state) or not, as the renderer decides.
CountdownTick(i) ==
    /\ i \in 1..Len(timers)
    /\ timers[i].kind \in {"worldFrameCountdown", "tposeCountdown"}
    /\ LET t == timers[i]
           prev == panels[t.inst].countdown
           collecting == IF t.kind = "worldFrameCountdown" THEN "inProgress" ELSE "tposeInProgress"
           samples == IF t.kind = "worldFrameCountdown" THEN "worldFrameSamples" ELSE "tposeSamples"
       IN  \E updaterRuns \in IF t.inst = mounted THEN {TRUE} ELSE BOOLEAN :
              IF ~updaterRuns THEN UNCHANGED <<panels, timers>>
              ELSE IF prev <= 1
                   THEN /\ timers' = [timers EXCEPT ![i].kind = samples]
                        /\ panels' = SetState(panels, t.inst,
                                              [calibrationStep |-> collecting, countdown |-> 0])
                   ELSE /\ timers' = timers
                        /\ panels' = SetState(panels, t.inst, [countdown |-> prev - 1])
    /\ UNCHANGED <<devices, selectedDevice, wsOpen, wsOut, calibrationParams, mounted, starts>>
    /\ UNCHANGED serverVars
    /\ UNCHANGED connection
    /\ UNCHANGED libVars

\* A test that lets the window run one callback longer.
windowOverStrict(sampleCount) == sampleCount > samplesToCollect

\* The test that ends a collection window.
windowOver(sampleCount) == sampleCount >= samplesToCollect

\* processWorldFrameSamples of the instance of interval t.
processWorldFrameSamples(t) ==
    LET samples == panels[t.inst].samplesRef
        avgQuaternion == calculateAverageQuaternion(samples, "quaternion")
        smpl2imu == transposeMatrix(quaternionToRotationMatrix(avgQuaternion))
        calibrationData == [smpl2imu |-> smpl2imu, referenceDeviceId |-> t.selectedDevice,
                            referenceWorldQuat |-> avgQuaternion, isCalibrated |-> TRUE]
        done == handleCalibrationComplete(calibrationData)
    IN  IF BagSize(samples) = 0
        THEN /\ panels' = SetState(panels, t.inst, [calibrationStep |-> "idle"])
             /\ UNCHANGED <<wsOut, calibrationParams>>
        ELSE /\ wsOut' = done.wsOut
             /\ calibrationParams' = done.calibrationParams
             /\ panels' = SetState(panels, t.inst, [calibrationStep |-> "worldFrameComplete"])

\* processTPoseSamples of the instance of interval t.  Its try block averages
\* arrays of four numbers and calls the App's handler, which sends on an open
\* socket only: none of its steps throws, so the catch (back to
\* worldFrameComplete) is never entered.
processTPoseSamples(t) ==
    LET samples == panels[t.inst].tposeSamplesRef
        sampled == {k \in DOMAIN samples : BagSize(samples[k]) > 0}
        device2boneMatrices ==
            [k \in sampled |->
                transposeMatrix(quaternionToRotationMatrix(
                    calculateAverageQuaternion(samples[k], "worldFrameQuaternion")))]
        done == handleTPoseCalibrationComplete(
                    [device2boneMatrices |-> device2boneMatrices, isTPoseCalibrated |-> TRUE])
    IN  /\ wsOut' = done.wsOut
        /\ calibrationParams' = done.calibrationParams
        /\ panels' = SetState(panels, t.inst, [calibrationStep |-> "complete"])

\* What a callback of collectWorldFrameSamples pushes: the sample of the
\* selected device, when the devices of its closure have it.
WorldFrameSample(t) ==
    IF /\ t.selectedDevice \in DOMAIN t.devices
       /\ {"quaternion", "accelerometer"} \subseteq DOMAIN t.devices[t.selectedDevice]
    THEN {Pick(t.devices[t.selectedDevice], {"quaternion", "accelerometer"})}
    ELSE {}

\* What a callback of collectTPoseSamples pushes, per device key.
TPoseSampled(t) ==
    {k \in DOMAIN t.devices : t.devices[k].isActive /\ "worldFrameQuaternion" \in DOMAIN t.devices[k]}

\* A callback of a sampling interval.
SampleTick(i) ==
    /\ i \in 1..Len(timers)
    /\ timers[i].kind \in {"worldFrameSamples", "tposeSamples"}
    /\ LET t == timers[i] IN
       IF windowOver(t.sampleCount)
       THEN /\ timers' = ClearInterval(timers, i)
            /\ IF t.kind = "worldFrameSamples"
               THEN processWorldFrameSamples(t)
               ELSE processTPoseSamples(t)
       ELSE /\ UNCHANGED <<wsOut, calibrationParams>>
            /\ IF t.kind = "worldFrameSamples"
               THEN LET pushed == WorldFrameSample(t) IN
                    /\ panels' = IF pushed = {} THEN panels
                                 ELSE SetRef(panels, t.inst,
                                        [samplesRef |->
                                            BagAdd(panels[t.inst].samplesRef,
                                                   CHOOSE x \in pushed : TRUE)])
                    /\ timers' = [timers EXCEPT
                                    ![i].sampleCount = IF pushed = {} THEN @ ELSE @ + 1,
                                    ![i].ticks = @ + 1]
               ELSE LET ref == panels[t.inst].tposeSamplesRef
                        sampleOf(k) == Pick(t.devices[k], {"quaternion", "worldFrameQuaternion"})
                    IN
                    /\ panels' = SetRef(panels, t.inst,
                            [tposeSamplesRef |->
                                [k \in (DOMAIN ref) \cup TPoseSampled(t) |->
                                    IF k \in TPoseSampled(t)
                                    THEN BagAdd(IF k \in DOMAIN ref THEN ref[k] ELSE EmptyObject,
                                                sampleOf(k))
                                    ELSE ref[k]]])
                    /\ timers' = [timers EXCEPT ![i].sampleCount = @ + 1, ![i].ticks = @ + 1]
    /\ UNCHANGED <<devices, selectedDevice, wsOpen, mounted, starts>>
    /\ UNCHANGED serverVars
    /\ UNCHANGED connection
    /\ UNCHANGED libVars

NoFanout == [timestamp |-> 0, data |-> Null, delivered |-> {}, raised |-> {}]

\* The server and the page after construction.
InitProgram ==
    /\ clients = <<>>
    /\ readyState = [c \in Observers |-> "CLOSED"]
    /\ calibrations = EmptyObject
    /\ sent = [c \in Observers |-> <<>>]
    /\ stats = [ios |-> 0, ar_glasses |-> 0, unknown |-> 0, errors |-> 0, clients |-> 0]
    /\ unusable = {}
    /\ fanout = NoFanout
    /\ packetCount = 0
    /\ received = 0
    /\ now = 0
    /\ devices = EmptyObject
    /\ selectedDevice = NoDevice
    /\ wsOpen = FALSE
    /\ wsOut = Null
    /\ calibrationParams = [isCalibrated |-> FALSE]
    /\ panels = <<>>
    /\ mounted = 0
    /\ timers = <<>>
    /\ starts = 0
    /\ connection = Connecting

\* No call of a library function is under way.
NoCall == [fn |-> "none"]

Pending == [pending |-> TRUE]

Returned(v) == [value |-> v]

Init ==
    /\ InitProgram
    /\ call = NoCall
    /\ ret = Pending

Next ==
    \/ \E c \in Observers : Connect(c)
    \/ \E c \in Observers : BeginClose(c)
    \/ \E c \in Observers : Break(c)
    \/ \E c \in Observers : OnClose(c)
    \/ \E c \in Observers : OnError(c)
    \/ \E c \in Observers, m \in ClientMessages : OnMessage(c, m)
    \/ \E p \in Payloads(packetCount + 1) : handleIncomingMessage(p)

Spec == Init /\ [][Next]_vars

\* The server over the hours: connections, control messages, datagrams and
\* the hourly cleanup of the calibration store.
NextStore ==
    \/ \E c \in Observers : Connect(c)
    \/ \E c \in Observers : OnClose(c)
    \/ \E c \in Observers, m \in ClientMessages : OnMessage(c, m)
    \/ \E p \in Payloads(packetCount + 1) : handleIncomingMessage(p)
    \/ CleanupInterval

SpecStore == Init /\ [][NextStore]_vars

\* The observer's page: the App and its calibration panel.
NextPanel ==
    \/ \E message \in ImuMessages : App_handleIMUData(message)
    \/ WsOnOpen
    \/ \E k \in DeviceKeys : handleDeviceClick(k)
    \/ \E k \in DeviceKeys : DeviceCardClick(k)
    \/ startWorldFrameCalibration
    \/ startTPoseCalibration
    \/ resetCalibration
    \/ \E i \in 1..MaxStarts : CountdownTick(i)
    \/ \E i \in 1..MaxStarts : SampleTick(i)

SpecPanel == Init /\ [][NextPanel]_vars

\* ------------------------------------------------- calls of the libraries

\* Twelve numeric fields: two timestamps, seven sample fields, a gyroscope.
Fields == Nums(<<1, 1, 0, 0, Gravity, Scale, 0, 0, 0, 5, 6, 7>>)

\* The numbers of tokens of the payloads: none, one short of the nine that
\* are required, nine, one short of twelve, twelve.
Lengths == {0, 8, 9, 11, 12}

\* Tokens that are not the digits of a finite number.
BadTokens == {Word("abc"), Word("Infinity"), NumWord(7 * Scale, "abc")}

\* The token lists: the first n fields, as they are or with one bad token.
TokenLists ==
    {SubSeq(Fields, 1, n) : n \in Lengths}
    \cup UNION {{[SubSeq(Fields, 1, n) EXCEPT ![k] = b] : k \in 1..n, b \in BadTokens} : n \in Lengths}

WireNames == {"phone", "iPhone", "tablet"}

\* Quaternions on the coordinate axes, and accelerations.
AxisQuats == {IdentityQuat, RotX180, <<0, Scale, 0, 0>>, <<0, 0, -Scale, 0>>}

WireAccels == {<<0, 0, Gravity>>, <<Scale, -2 * Scale, 3 * Scale>>}

WireMessages ==
    {Message(h, name, tokens) : h \in Heads \ {""}, name \in WireNames, tokens \in TokenLists}
    \cup {Message("", "", tokens) : tokens \in TokenLists}
    \cup {ARWire(1, acc, quat) : acc \in WireAccels, quat \in AxisQuats}
    \cup {IOSWire(name, 1, acc, quat) :
              name \in {"watch", "headphone", "airpods"}, acc \in WireAccels, quat \in AxisQuats}

\* A function of the libraries is called on arguments drawn from the sets
\* above, and returns.
\* The data of the calibration messages whose records applyCalibration is
\* called with, and the samples it is called on.
StoredData ==
    { [smpl2imu |-> Identity3, referenceDeviceId |-> "phone_0", referenceWorldQuat |-> IdentityQuat],
      [smpl2imu |-> RotX180Matrix, referenceDeviceId |-> "phone_0", referenceWorldQuat |-> RotX180] }

PhoneSamples ==
    {processDeviceData("ios", parseIOSMessage(IOSWire("phone", 1, acc, quat))) :
        acc \in WireAccels, quat \in AxisQuats}

\* Unit quaternions whose products are exact in the fixed point: components
\* 0, 0.5, 0.6, 0.8 and 1 with either sign.
Components ==
    {0, Scale \div 2, -(Scale \div 2), (6 * Scale) \div 10, -((6 * Scale) \div 10),
     (8 * Scale) \div 10, -((8 * Scale) \div 10), Scale, -Scale}

UnitQuats ==
    {q \in Components \X Components \X Components \X Components :
        q[1] * q[1] + q[2] * q[2] + q[3] * q[3] + q[4] * q[4] = Scale * Scale}

Negated(q) == << -q[1], -q[2], -q[3], -q[4] >>

\* The lists that are averaged: a quaternion with its antipode, once or
\* after a second copy of itself.
QuaternionLists ==
    {<<q, Negated(q)>> : q \in UnitQuats} \cup {<<q, q, Negated(q)>> : q \in UnitQuats}

\* The array quaternions as the samples that calculateAverageQuaternion sums.
RECURSIVE AsSamples(_)
AsSamples(quaternions) ==
    IF quaternions = <<>> THEN EmptyObject
    ELSE BagAdd(AsSamples(Tail(quaternions)), [quaternion |-> Head(quaternions)])

\* Quaternions that are not of unit length.
LongQuats ==
    {<<0, 0, 0, 0>>, <<0, 0, 0, 2 * Scale>>, <<Scale, Scale, 0, 0>>, <<0, Scale, 0, Scale>>,
     <<0, -Scale, 0, Scale>>, <<Scale \div 2, 0, 0, 0>>}

DeviceNames ==
    {"phone", "iphone", "watch", "applewatch", "headphone", "airpods", "glasses",
     "arglasses", "iPhone", "Watch", "tablet", "unity"}

\* The samples of the AR glasses, which carry a linear acceleration.
GlassesSamples ==
    {processDeviceData("ar_glasses", parseARGlassesMessage(ARWire(1, acc, quat))) :
        acc \in WireAccels, quat \in AxisQuats}

\* device2bone matrices of a T-pose: half turns about x and about y.
BoneMatrices == {RotX180Matrix, quaternionToRotationMatrix(<<0, Scale, 0, 0>>)}

\* The offsets of a T-pose for the device with key k: none, or both.
OffsetMaps(k) ==
    { [accOffsets |-> EmptyObject, linearAccOffsets |-> EmptyObject],
      [accOffsets |-> [d \in {k} |-> <<Scale, 0, Gravity>>],
       linearAccOffsets |-> [d \in {k} |-> <<0, Scale, 0>>]] }

Calls ==
    [fn : {"applyCalibrationTPose", "setCalibration"}, calibrationData : StoredData, device2bone : BoneMatrices,
     withOffsets : BOOLEAN, deviceData : PhoneSamples \cup GlassesSamples]
    \cup
    [fn : {"parseIOSMessage", "parseARGlassesMessage", "processDeviceData"},
     message : WireMessages]
    \cup [fn : {"getDeviceIndex", "DataParser_getDeviceIndex"}, deviceName : DeviceNames]
    \cup [fn : {"applyCalibration"}, calibrationData : StoredData, deviceData : PhoneSamples]
    \cup [fn : {"calculateAverageQuaternion"}, quaternions : QuaternionLists]
    \cup [fn : {"rotationMatrixToQuaternion"}, q : UnitQuats]
    \cup [fn : {"quaternionMultiply", "quaternionToEuler"}, q : UnitQuats \cup LongQuats]

InitLib ==
    /\ InitProgram
    /\ call \in Calls
    /\ ret = Pending

\* The call returns v.
Return(fn, v) ==
    /\ call.fn = fn
    /\ ret = Pending
    /\ ret' = Returned(v)
    /\ UNCHANGED call
    /\ UNCHANGED serverVars
    /\ UNCHANGED frontVars

CallParseIOSMessage ==
    call.fn = "parseIOSMessage" /\ Return("parseIOSMessage", parseIOSMessage(call.message))

CallParseARGlassesMessage ==
    /\ call.fn = "parseARGlassesMessage"
    /\ Return("parseARGlassesMessage", parseARGlassesMessage(call.message))

\* The receive path up to the sample that the server fans out: the payload
\* is classified and parsed, and the 'data' event is given to processDeviceData.
CallProcessDeviceData ==
    /\ call.fn = "processDeviceData"
    /\ LET e == classifyAndParseMessage(call.message)
       IN  Return("processDeviceData", processDeviceData(e.deviceType, e.rawData))

CallGetDeviceIndex ==
    call.fn = "getDeviceIndex" /\ Return("getDeviceIndex", getDeviceIndex(call.deviceName))

CallDataParser_getDeviceIndex ==
    /\ call.fn = "DataParser_getDeviceIndex"
    /\ Return("DataParser_getDeviceIndex", DataParser_getDeviceIndex(call.deviceName))

\* applyCalibration for a client whose record setCalibration has stored.
CallApplyCalibration ==
    /\ call.fn = "applyCalibration"
    /\ LET cal == setCalibration(EmptyObject, "A", call.calibrationData)
       IN  Return("applyCalibration", applyCalibration(cal, "A", call.deviceData).value)

\* applyCalibration for two clients after a world-frame and a T-pose
\* calibration that differ in one thing: the T-pose of client "A" stored a
\* device2bone matrix for the device of the sample, that of "B" did not.
CallApplyCalibrationTPose ==
    /\ call.fn = "applyCalibrationTPose"
    /\ LET k == DeviceKey(call.deviceData)
           offsets == CHOOSE o \in OffsetMaps(k) : (o.accOffsets # EmptyObject) = call.withOffsets
           tpose(bones) == Spread(offsets, [device2boneMatrices |-> bones])
           stored == setCalibration(setCalibration(EmptyObject, "A", call.calibrationData),
                                    "B", call.calibrationData)
           cal == setTPoseCalibration(
                      setTPoseCalibration(stored, "A", tpose([d \in {k} |-> call.device2bone])),
                      "B", tpose(EmptyObject))
       IN  Return("applyCalibrationTPose",
                  [bone |-> applyCalibration(cal, "A", call.deviceData).value,
                   plain |-> applyCalibration(cal, "B", call.deviceData).value])

\* setCalibration for a client that has the record of an earlier world-frame
\* calibration and of a T-pose, then getCalibrationStatus and applyCalibration.
CallSetCalibration ==
    /\ call.fn = "setCalibration"
    /\ LET k == DeviceKey(call.deviceData)
           offsets == CHOOSE o \in OffsetMaps(k) : (o.accOffsets # EmptyObject) = call.withOffsets
           earlier == CHOOSE d \in StoredData : d # call.calibrationData
           before == setTPoseCalibration(setCalibration(EmptyObject, "A", earlier), "A",
                         Spread(offsets, [device2boneMatrices |-> [d \in {k} |-> call.device2bone]]))
           cal == setCalibration(before, "A", call.calibrationData)
       IN  Return("setCalibration",
                  [wasTPoseCalibrated |-> isTPoseCalibrated(before, "A"),
                   record |-> cal["A"],
                   isCalibrated |-> getCalibrationStatus(cal, "A"),
                   isTPoseCalibrated |-> isTPoseCalibrated(cal, "A"),
                   sample |-> applyCalibration(cal, "A", call.deviceData).value])

CallCalculateAverageQuaternion ==
    /\ call.fn = "calculateAverageQuaternion"
    /\ Return("calculateAverageQuaternion",
              calculateAverageQuaternion(AsSamples(call.quaternions), "quaternion"))

\* rotationMatrixToQuaternion on the matrix that quaternionToRotationMatrix
\* makes of q.
CallRotationMatrixToQuaternion ==
    /\ call.fn = "rotationMatrixToQuaternion"
    /\ Return("rotationMatrixToQuaternion",
              rotationMatrixToQuaternion(quaternionToRotationMatrix(call.q)))

\* quaternionMultiply of q and its inverseQuaternion.
CallQuaternionMultiply ==
    /\ call.fn = "quaternionMultiply"
    /\ Return("quaternionMultiply", quaternionMultiply(call.q, inverseQuaternion(call.q)))

CallQuaternionToEuler ==
    call.fn = "quaternionToEuler" /\ Return("quaternionToEuler", quaternionToEuler(call.q))

NextLib ==
    \/ CallSetCalibration
    \/ CallApplyCalibrationTPose
    \/ CallQuaternionToEuler
    \/ CallQuaternionMultiply
    \/ CallRotationMatrixToQuaternion
    \/ CallCalculateAverageQuaternion
    \/ CallApplyCalibration
    \/ CallGetDeviceIndex
    \/ CallDataParser_getDeviceIndex
    \/ CallParseIOSMessage
    \/ CallParseARGlassesMessage
    \/ CallProcessDeviceData

SpecLib == InitLib /\ [][NextLib]_vars

\* The observer's page with a stationary reference device: the glasses at
\* rest send the quaternion [0, 0, 0, 1], the phone lies upside down.
StillMessages ==
    LET glasses == ARWire(1, <<0, 0, Gravity>>, IdentityQuat)
        phone == IOSWire("phone", 1, <<0, 0, Gravity>>, RotX180)
    IN  { [type |-> "imu_data", deviceType |-> "ar_glasses",
           data |-> processDeviceData("ar_glasses", parseARGlassesMessage(glasses))],
          [type |-> "imu_data", deviceType |-> "ios",
           data |-> processDeviceData("ios", parseIOSMessage(phone))] }

NextStill ==
    \/ \E message \in StillMessages : App_handleIMUData(message)
    \/ WsOnOpen
    \/ \E k \in DeviceKeys : DeviceCardClick(k)
    \/ startWorldFrameCalibration
    \/ \E i \in 1..MaxStarts : CountdownTick(i)
    \/ \E i \in 1..MaxStarts : SampleTick(i)

SpecStill == Init /\ [][NextStill]_vars

\* The observer's page with a reference device that moves: the phone sends
\* the quaternion of a phone lying upside down, then that of a phone lying
\* face up.
MovingMessages ==
    { [type |-> "imu_data", deviceType |-> "ios",
       data |-> processDeviceData("ios", parseIOSMessage(IOSWire("phone", 1, <<0, 0, Gravity>>, quat)))] :
      quat \in {RotX180, IdentityQuat} }

NextMoving ==
    \/ \E message \in MovingMessages : App_handleIMUData(message)
    \/ WsOnOpen
    \/ \E k \in DeviceKeys : DeviceCardClick(k)
    \/ startWorldFrameCalibration
    \/ \E i \in 1..MaxStarts : CountdownTick(i)
    \/ \E i \in 1..MaxStarts : SampleTick(i)

SpecMoving == Init /\ [][NextMoving]_vars

\* The observer whose page is modelled, with its connection to the server.
Page == "A"

\* onCalibrationComplete of the panel: handleCalibrationComplete of App, and
\* handleClientMessage of the server for the message when the page's socket
\* and the server's side of it are open.
App_handleCalibrationComplete(calibrationData) ==
    /\ ~connection.unmounted
    /\ LET done == handleCalibrationComplete(calibrationData) IN
       /\ wsOut' = done.wsOut
       /\ calibrationParams' = done.calibrationParams
       /\ IF wsOpen /\ readyState[Page] = "OPEN"
          THEN /\ received < MaxMessages
               /\ received' = received + 1
               /\ handleClientMessage(Page, done.wsOut)
          ELSE UNCHANGED <<calibrations, sent, received>>
    /\ UNCHANGED <<devices, selectedDevice, wsOpen, panels, mounted, timers, starts, connection>>
    /\ UNCHANGED <<clients, readyState, stats, unusable, fanout, packetCount, now>>
    /\ UNCHANGED libVars

\* The page and the server, over the connections of the page: the server
\* accepts the socket that the page is connecting, the page's onopen follows;
\* a connection ends on the server's side, the page's onclose follows.
NextSession ==
    \/ connection.readyState = "CONNECTING" /\ Connect(Page)
    \/ readyState[Page] = "OPEN" /\ WsOnOpen
    \/ OnClose(Page)
    \/ readyState[Page] = "CLOSED" /\ WsOnClose
    \/ \E timer \in 1..MaxSockets : ReconnectTimeout(timer)
    \/ AppCleanup
    \/ \E calibrationData \in StoredData : App_handleCalibrationComplete(calibrationData)
    \/ \E p \in Payloads(packetCount + 1) : handleIncomingMessage(p)

SpecSession == Init /\ [][NextSession]_vars

\* ------------------------------------------------- properties: fan-out

Last(q) == q[Len(q)]

\* The fields applyCalibration adds to a sample.
WorldFrameFields ==
    {"worldFrameQuaternion", "worldFrameQuatForViz", "worldFrameAccelerometer",
     "worldFrameLinearAcceleration", "worldFrameEuler", "isCalibrated",
     "hasAccOffset", "hasLinearAccOffset"}

\* The step is a datagram whose sample was processed and fanned out.
FannedOut == packetCount' = packetCount + 1 /\ fanout'.timestamp = packetCount'

\* The step sent observer c an imu_data message.
SentSample(c) ==
    /\ FannedOut
    /\ Len(sent'[c]) = Len(sent[c]) + 1
    /\ Last(sent'[c]).type = "imu_data"

Uncalibrated(c) == c \notin DOMAIN calibrations \/ "smpl2imu" \notin DOMAIN calibrations[c]

\* The observer's record makes the try block of applyCalibration throw on sample d.
FailingCalibration(c, d) == ~Uncalibrated(c) /\ applyCalibrationThrows(calibrations[c], d)

CanReceive(c) == c \in ClientSet /\ readyState[c] = "OPEN" /\ c \notin unusable

\* C1: an observer with no calibration record, or with a record without
\* smpl2imu, is sent exactly the processed sample: applyCalibration returns
\* it unchanged, and the message carries no world-frame field and no
\* isCalibrated flag.
C1_UncalibratedPassThrough ==
    [][\A c \in Observers :
          SentSample(c) /\ Uncalibrated(c) =>
              /\ applyCalibration(calibrations, c, fanout'.data) = Returns(fanout'.data)
              /\ Last(sent'[c]).data = fanout'.data
              /\ DOMAIN Last(sent'[c]).data \cap WorldFrameFields = {}]_vars

\* An observer holding a record without smpl2imu has just been sent a sample as processed.
C1_Witness ==
    \E c \in Observers :
        /\ CanReceive(c)
        /\ c \in DOMAIN calibrations /\ "smpl2imu" \notin DOMAIN calibrations[c]
        /\ c \in fanout.delivered
        /\ Last(sent[c]).type = "imu_data"
        /\ Last(sent[c]).data = fanout.data

\* C2: applyCalibration never throws.  When the record makes the computation
\* fail (smpl2imu is not 3x3, or there is no referenceWorldQuat) the observer
\* is sent the original sample, the fan-out goes on to every observer that
\* can receive, and the datagram is not counted as an error.
C2_ApplyNeverThrows ==
    [][FannedOut =>
          /\ stats'.errors = stats.errors
          /\ \A c \in Observers :
                /\ ~applyCalibration(calibrations, c, fanout'.data).threw
                /\ CanReceive(c) => c \in fanout'.delivered
                /\ CanReceive(c) /\ FailingCalibration(c, fanout'.data) =>
                       Last(sent'[c]).data = fanout'.data]_vars

\* The first client holds a record whose computation fails; it and the
\* client after it have both been sent the last sample.
C2_Witness ==
    /\ Len(clients) = 2
    /\ fanout.delivered = {clients[1], clients[2]}
    /\ FailingCalibration(clients[1], fanout.data)
    /\ Last(sent[clients[1]]).type = "imu_data"
    /\ Last(sent[clients[1]]).data = fanout.data
    /\ Last(sent[clients[2]]).type = "imu_data"

\* C3: a failed delivery to one observer (its send raises, or its socket is
\* not open) does not keep the sample from any other observer: every
\* stored client whose socket is open and usable is sent the sample.
C3_FailureIsolated ==
    [][FannedOut =>
          \A c \in Observers :
              CanReceive(c) =>
                  /\ Len(sent'[c]) = Len(sent[c]) + 1
                  /\ Last(sent'[c]).type = "imu_data"
                  /\ Last(sent'[c]).data.timestamp = packetCount']_vars

\* The send to the first client raised, or its socket was not open, and the
\* client after it was sent the sample.
C3_Witness ==
    /\ Len(clients) = 2
    /\ clients[1] \in fanout.raised
    /\ clients[2] \in fanout.delivered
    /\ Last(sent[clients[2]]).type = "imu_data"
    /\ Last(sent[clients[2]]).data.timestamp = fanout.timestamp

\* C4 as stated: an observer whose send raised is removed from the active
\* clients by the fan-out, so that no later sample is tried on it.
C4_RemovedAfterFailedSend ==
    [][FannedOut => fanout'.raised \cap ClientSet' = {}]_vars

\* C5: the imu_data messages sent to an observer carry the datagrams in
\* arrival order, each at most once.
SampleTimestamps(c) ==
    LET samples == SelectSeq(sent[c], LAMBDA m : m.type = "imu_data")
    IN  [i \in 1..Len(samples) |-> samples[i].data.timestamp]

C5_ArrivalOrder ==
    \A c \in Observers :
        \A i, j \in 1..Len(SampleTimestamps(c)) :
            i < j => SampleTimestamps(c)[i] < SampleTimestamps(c)[j]

\* An observer has been sent two samples.
C5_Witness ==
    \E c \in Observers : Len(SampleTimestamps(c)) = 2 /\ SampleTimestamps(c)[2] = MaxDatagrams

\* The store entry of an observer; Null when it has none.
Entry(cal, c) == IF c \in DOMAIN cal THEN cal[c] ELSE Null

\* C6: a calibration, tpose_calibration or reset_calibration message from an
\* observer changes no other observer's entry of the store.
C6_OnlyOwnEntry ==
    [][\A c \in Observers, m \in ClientMessages :
          OnMessage(c, m) =>
              \A d \in Observers \ {c} : Entry(calibrations', d) = Entry(calibrations, d)]_vars

\* Two observers hold different records.
C6_Witness ==
    \E c, d \in Observers :
        /\ c \in DOMAIN calibrations /\ d \in DOMAIN calibrations
        /\ calibrations[c] # calibrations[d]
        /\ "isTPoseCalibrated" \notin DOMAIN calibrations[c]

\* C7: the store never holds a record for an observer that is not a
\* stored client: close and error remove the record with the client entry.
C7_NoRecordWithoutClient == DOMAIN calibrations \subseteq ClientSet

\* An observer whose only message stored a record has had a socket error:
\* it is neither a client nor in the store.
C7_Witness ==
    \E c \in Observers :
        /\ readyState[c] = "CLOSING"
        /\ c \notin ClientSet
        /\ received = 1
        /\ Len(sent[c]) > 1
        /\ Last(sent[c]).type = "calibration_confirmed"
        /\ c \notin DOMAIN calibrations

\* ------------------------------------- properties: calibration session

Steps ==
    {"idle", "worldFrame", "inProgress", "worldFrameComplete", "tposeCountdown",
     "tposeInProgress", "complete"}

\* The moves of the step the session is meant to make: the path from idle
\* to complete, the return to idle (reset, world-frame failure) and the
\* return to worldFrameComplete on a T-pose failure.
SessionPath ==
    { <<"idle", "worldFrame">>, <<"worldFrame", "inProgress">>,
      <<"inProgress", "worldFrameComplete">>, <<"worldFrameComplete", "tposeCountdown">>,
      <<"tposeCountdown", "tposeInProgress">>, <<"tposeInProgress", "complete">>,
      <<"tposeInProgress", "worldFrameComplete">> }
    \cup {<<step, "idle">> : step \in Steps}

\* C8 as stated: the step of a session moves along the session path only;
\* world-frame calibration starts from idle only, T-pose calibration from
\* worldFrameComplete only.
C8_SessionPathOnly ==
    [][\A i \in 1..Len(panels) :
          panels'[i].calibrationStep # panels[i].calibrationStep =>
              <<panels[i].calibrationStep, panels'[i].calibrationStep>> \in SessionPath]_vars

\* C9 as stated: at most one countdown or sampling interval is active.
C9_OneTimer == Len(timers) <= 1

Collecting == {"inProgress", "tposeInProgress"}

SamplingKinds == {"worldFrameSamples", "tposeSamples"}

\* C10: a collection window samples on every callback and on at most
\* samplesToCollect (90) of them, whatever the devices report meanwhile; the
\* callback after the last sample ends the window, and the session of a
\* mounted panel leaves the collecting step with it.
C10_WindowBounded ==
    [][/\ \A i \in 1..Len(timers') :
             timers'[i].kind \in SamplingKinds =>
                 /\ timers'[i].ticks <= samplesToCollect
                 /\ timers'[i].sampleCount = timers'[i].ticks
       /\ \A i \in 1..Len(timers) :
             /\ timers[i].kind \in SamplingKinds
             /\ timers[i].ticks = samplesToCollect
             /\ SampleTick(i)
             => /\ Len(timers') = Len(timers) - 1
                /\ timers[i].inst = mounted =>
                       panels'[mounted].calibrationStep \notin Collecting]_vars

\* A T-pose window has run to its end although no device had world-frame
\* data on any of its callbacks: nothing was sampled, the interval is
\* cleared and the session has left the collecting step.
C10_Witness ==
    /\ mounted # 0
    /\ panels[mounted].calibrationStep = "complete"
    /\ panels[mounted].tposeSamplesRef = EmptyObject
    /\ BagSize(panels[mounted].samplesRef) = samplesToCollect
    /\ timers = <<>>

\* ---------------------------------------------------- properties: reset

\* The steps without a countdown or a collection window.
Settled == {"idle", "worldFrameComplete", "complete"}

\* The Reset button of the mounted panel takes a click.
ResetAccepted == mounted # 0 /\ ~ResetDisabled(panels[mounted].calibrationStep)

\* C11 as stated: Reset is refused in the two collecting steps and in no
\* other step.
C11_RefusedOnlyWhileCollecting ==
    mounted # 0 =>
        (ResetAccepted <=> panels[mounted].calibrationStep \notin Collecting)

\* C11, amended: Reset is accepted in idle, worldFrameComplete and complete,
\* and a reset happens from these steps only (not during a countdown, not
\* during a collection window); it sets the step to idle and empties the
\* world-frame and the T-pose sample buffers.
C11_ResetFromSettledSteps ==
    [][/\ mounted # 0 /\ panels[mounted].calibrationStep \in Settled => ResetAccepted
       /\ resetCalibration =>
             /\ panels[mounted].calibrationStep \in Settled
             /\ panels'[mounted].calibrationStep = "idle"
             /\ panels'[mounted].samplesRef = EmptyObject
             /\ panels'[mounted].tposeSamplesRef = EmptyObject]_vars

\* Reset was clicked after a world-frame calibration had completed: the
\* panel is idle with empty buffers and the App holds the reset parameters.
C11_Witness ==
    /\ mounted # 0
    /\ panels[mounted].calibrationStep = "idle"
    /\ panels[mounted].countdown = 0
    /\ panels[mounted].samplesRef = EmptyObject
    /\ calibrationParams = [isCalibrated |-> FALSE, isTPoseCalibrated |-> FALSE]

\* The App holds a T-pose result.
TPoseResultHeld ==
    /\ "isTPoseCalibrated" \in DOMAIN calibrationParams
    /\ calibrationParams.isTPoseCalibrated

\* C12 as stated: once the calibration has been reset, no callback of the
\* abandoned T-pose session produces a T-pose result: the App never holds a
\* T-pose result on top of reset (uncalibrated) parameters.
C12_NoResultOfAbandonedSession == ~calibrationParams.isCalibrated => ~TPoseResultHeld

\* C13 as stated: once a panel has been torn down, the callbacks of the
\* intervals of its session are cancelled: none of them collects a sample,
\* starts a collection window or produces a calibration result (applied to
\* the App's parameters or sent to the server).
C13_TornDownSessionIsDiscarded ==
    [][\A i \in 1..Len(timers) :
          timers[i].inst # mounted /\ (CountdownTick(i) \/ SampleTick(i)) =>
              UNCHANGED <<panels, timers, calibrationParams, wsOut>>]_vars

\* ------------------------------------------- properties: control messages

ResetMessage == [type |-> "reset_calibration"]

\* C14: handling reset_calibration for an observer leaves the client set as
\* it is and the store without the observer's record, and handling it once
\* more changes nothing: the store reached is a fixed point of
\* clearCalibration for that observer, whether it had a record or not.
C14_ResetIdempotent ==
    [][\A c \in Observers :
          OnMessage(c, ResetMessage) =>
              /\ clients' = clients
              /\ c \notin DOMAIN calibrations'
              /\ clearCalibration(calibrations', c) = calibrations']_vars

\* A connected observer whose calibration was stored and confirmed has had
\* it reset: it is still a client and has no record.
C14_Witness ==
    \E c \in Observers :
        /\ readyState[c] = "OPEN"
        /\ c \in ClientSet
        /\ received = 2
        /\ Last(sent[c]).type = "calibration_confirmed"
        /\ c \notin DOMAIN calibrations

\* ------------------------------------------- properties: failed sessions

\* C15: a world-frame window that ends with an empty sample buffer puts the
\* session of a mounted panel back to idle and produces no calibration:
\* nothing is sent and the App's parameters stay as they are.
C15_ZeroSamplesBackToIdle ==
    [][\A i \in 1..Len(timers) :
          /\ timers[i].kind = "worldFrameSamples"
          /\ windowOver(timers[i].sampleCount)
          /\ BagSize(panels[timers[i].inst].samplesRef) = 0
          /\ SampleTick(i)
          => /\ UNCHANGED <<wsOut, calibrationParams>>
             /\ timers[i].inst = mounted => panels'[mounted].calibrationStep = "idle"]_vars

\* The buffer of a running world-frame window holds every sample the window
\* has counted, so a window that is over has at least samplesToCollect of them.
C15_CountedSamplesAreHeld ==
    \A i \in 1..Len(timers) :
        timers[i].kind = "worldFrameSamples" =>
            BagSize(panels[timers[i].inst].samplesRef) >= timers[i].sampleCount

\* ------------------------------------------ properties: calibration store

\* The maps of a record that only a T-pose calibration fills.
TPoseMaps == {"device2boneMatrices", "accOffsets", "linearAccOffsets"}

\* C17 as stated: in the store, the T-pose maps of a record are empty unless
\* a T-pose calibration was stored in it, and an observer is reported as
\* calibrated exactly when its record holds an smpl2imu matrix.
C17_StoreShape ==
    \A c \in Observers :
        /\ c \in DOMAIN calibrations /\ "isTPoseCalibrated" \notin DOMAIN calibrations[c] =>
               \A f \in TPoseMaps : calibrations[c][f] = EmptyObject
        /\ getCalibrationStatus(calibrations, c) <=>
               (c \in DOMAIN calibrations /\ "smpl2imu" \in DOMAIN calibrations[c])

\* The last thing sent to observer c is a sample calibrated under its record.
CalibrationApplied(c) ==
    /\ c \in ClientSet
    /\ readyState[c] = "OPEN"
    /\ Len(sent[c]) > 0
    /\ Last(sent[c]).type = "imu_data"
    /\ "isCalibrated" \in DOMAIN Last(sent[c]).data

\* C18 as stated: the hourly cleanup does not delete the record of an
\* observer that is connected and whose calibration is being applied to the
\* samples that arrive.
C18_ActiveRecordNotPruned ==
    [][CleanupInterval =>
          \A c \in DOMAIN calibrations : CalibrationApplied(c) => c \in DOMAIN calibrations']_vars

\* The step sent observer c one message of the given type, and nobody else
\* anything.
Answered(c, type) ==
    /\ sent'[c] = Append(sent[c], [type |-> type, clientId |-> c])
    /\ \A d \in Observers \ {c} : sent'[d] = sent[d]

\* The answer the protocol gives to a control message of observer c.
Acknowledged(c, m) ==
    CASE m.type = "calibration" -> Answered(c, "calibration_confirmed")
      [] m.type = "tpose_calibration" -> Answered(c, "tpose_calibration_confirmed")
      [] OTHER -> sent' = sent

\* handleClientMessage runs to its end on message m of observer c: the
\* message carries the data its handler reads.
RunsToEnd(c, m) ==
    \/ "data" \in DOMAIN m
    \/ m.type \notin {"calibration", "tpose_calibration"}
    \/ m.type = "tpose_calibration" /\ c \notin DOMAIN calibrations

\* C19 as stated: every calibration and every tpose_calibration message of a
\* connected observer is answered by exactly one confirmation of its kind,
\* sent to that observer only; reset_calibration is answered by nothing.
C19_EveryMessageAnswered ==
    [][\A c \in Observers : \A m \in ClientMessages :
          OnMessage(c, m) /\ c \in ClientSet => Acknowledged(c, m)]_vars

\* C19, amended: that holds for the messages on which handleClientMessage
\* runs to its end, on a socket that takes the send; a calibration message
\* without data, and a tpose_calibration message without data for an
\* observer that has a record, throw in the handler: they are answered by
\* nothing and leave the store as it is.
C19_HandledMessageAnswered ==
    [][\A c \in Observers : \A m \in ClientMessages :
          OnMessage(c, m) /\ CanReceive(c) =>
              IF RunsToEnd(c, m) THEN Acknowledged(c, m)
              ELSE sent' = sent /\ calibrations' = calibrations]_vars

\* With two observers connected, one has been sent the confirmation of a
\* T-pose calibration and the other nothing but its welcome.
C19_Witness ==
    \E c \in Observers : \E d \in Observers \ {c} :
        /\ CanReceive(c) /\ CanReceive(d)
        /\ Last(sent[c]).type = "tpose_calibration_confirmed"
        /\ Len(sent[d]) = 1

\* ------------------------------------------------ properties: datagrams

\* The names of the device table.
TableNames ==
    {"phone", "iphone", "watch", "applewatch", "headphone", "airpods", "glasses", "arglasses"}

\* A datagram that cannot be turned into a valid sample: no known wire
\* format, or an iOS payload of a device the table does not know.
NoValidSample(p) ==
    \/ p.head = "" /\ Len(p.tokens) < 9
    \/ p.head = "a;b:" /\ p.name \notin TableNames

\* C20: a non-empty datagram that cannot be turned into a valid sample is
\* sent to no observer and is not recorded as a fan-out; it adds exactly
\* one to the error counter and leaves the ios and ar_glasses counters (and
\* everything else but the packet count) as they are.
C20_InvalidDatagramCountedOnce ==
    [][\A p \in Payloads(packetCount + 1) :
          handleIncomingMessage(p) /\ NoValidSample(p) =>
              /\ sent' = sent
              /\ fanout' = fanout
              /\ stats' = [stats EXCEPT !.errors = stats.errors + 1]
              /\ packetCount' = packetCount + 1]_vars

\* An observer received the first datagram as a sample and, still connected
\* with a usable socket, nothing of the second, which counted as an error.
C20_Witness ==
    \E c \in Observers :
        /\ CanReceive(c)
        /\ packetCount = 2
        /\ stats.errors = 1
        /\ stats.ios + stats.ar_glasses = 1
        /\ Last(sent[c]).type = "imu_data"
        /\ Last(sent[c]).data.timestamp = 1

\* ------------------------------------------------- properties: parsing

Has(fn) == call.fn = fn /\ ret # Pending

Parsers == {"parseIOSMessage", "parseARGlassesMessage"}

\* The tokens that are the digits of a finite number and nothing else.
Numeric(token) == DOMAIN token = {"num"}

\* The delimiters are those of the format the parser reads.
WellDelimited(fn, message) ==
    IF fn = "parseIOSMessage" THEN message.head = "a;b:" ELSE message.head = ""

\* C21: a parser returns null whenever the payload is empty, has malformed
\* delimiters, has fewer than nine numeric fields, or has a token among its
\* data fields that is not numeric or not finite.
C21_RejectsBadPayload ==
    \A fn \in Parsers :
        /\ Has(fn)
        /\ \/ call.message = EmptyMessage
           \/ ~WellDelimited(fn, call.message)
           \/ Len(SelectSeq(call.message.tokens, Numeric)) < 9
           \/ \E i \in 1..Len(call.message.tokens) : ~Numeric(call.message.tokens[i])
        => ret.value = Null

\* What the parsers do reject: the empty payload, malformed delimiters, and
\* fewer than nine tokens.
C21_RejectsShortPayload ==
    \A fn \in Parsers :
        /\ Has(fn)
        /\ \/ call.message = EmptyMessage
           \/ ~WellDelimited(fn, call.message)
           \/ Len(call.message.tokens) < 9
        => ret.value = Null

\* The sample that the receive path made of the payload.
Sample == ret.value

HasSample == Has("processDeviceData") /\ ret.value # Null

AllNumeric(message) == \A i \in 1..Len(message.tokens) : Numeric(message.tokens[i])

\* The payload carried the three gyroscope fields.
CarriedGyroscope(message) == AllNumeric(message) /\ Len(message.tokens) >= 12

\* C22: has_gyro of a sample is true exactly when the payload carried the
\* three gyroscope fields; when they are absent the gyroscope is the zero
\* vector and has_gyro is false.
C22_HasGyroIffCarried ==
    HasSample /\ AllNumeric(call.message) =>
        /\ Sample.has_gyro <=> CarriedGyroscope(call.message)
        /\ ~CarriedGyroscope(call.message) => Sample.gyroscope = <<0, 0, 0>>

\* What holds of the gyroscope: the fields that were carried, else zeros,
\* and a has_gyro that is false either way.
C22_GyroscopeCarriedOrZero ==
    HasSample /\ AllNumeric(call.message) =>
        /\ ~Sample.has_gyro
        /\ Sample.gyroscope = IF CarriedGyroscope(call.message)
                              THEN <<5, 6, 7>> ELSE <<0, 0, 0>>

\* ------------------------------------------------- properties: devices

\* The fixed table: the index of a known name.
TableIndex(name) ==
    CASE name \in {"phone", "iphone"} -> 0
      [] name \in {"watch", "applewatch"} -> 1
      [] OTHER -> 2

IndexLookups == {"getDeviceIndex", "DataParser_getDeviceIndex"}

\* C23: a device index lookup gives every known name its index of the
\* table and gives null for the names outside the table only; this holds of
\* both getDeviceIndex implementations.
C23_IndexOfTable ==
    \A fn \in IndexLookups :
        Has(fn) =>
            LET name == toLowerCase(call.deviceName)
            IN  ret.value = IF name \in TableNames THEN TableIndex(name) ELSE NullIndex

\* What holds: the lookup of data-processor.js follows the table, and the
\* sample of an iOS payload whose device name is outside the table is dropped.
C23_ProcessorIndexOfTable ==
    /\ Has("getDeviceIndex") =>
           LET name == toLowerCase(call.deviceName)
           IN  ret.value = IF name \in TableNames THEN TableIndex(name) ELSE NullIndex
    /\ /\ Has("processDeviceData")
       /\ call.message.head = "a;b:"
       /\ toLowerCase(call.message.name) \notin TableNames
       => ret.value = Null

\* The acceleration fields of an AR glasses payload, as numbers.
RawAcceleration(message) ==
    << parseFloat(message.tokens[7]), parseFloat(message.tokens[8]),
       parseFloat(message.tokens[9]) >>

\* C24: the accelerometer of an AR glasses sample is the acceleration of
\* the payload unchanged, and the sample has a linear_acceleration of its
\* own; the sample of an iOS device has no linear_acceleration.
C24_RawAndLinearAcceleration ==
    HasSample =>
        IF Sample.device_type = "ar_glasses"
        THEN /\ Sample.accelerometer = RawAcceleration(call.message)
             /\ "linear_acceleration" \in DOMAIN Sample
             /\ Len(Sample.linear_acceleration) = 3
        ELSE "linear_acceleration" \notin DOMAIN Sample

\* The sample of AR glasses turned upside down and moving: its accelerometer
\* is the payload's, its linear acceleration is another vector.
C24_Witness ==
    /\ HasSample
    /\ Sample.device_type = "ar_glasses"
    /\ Sample.quaternion = RotX180
    /\ Sample.accelerometer = <<Scale, -2 * Scale, 3 * Scale>>
    /\ Sample.linear_acceleration = <<Scale, -2 * Scale, 3 * Scale - Gravity>>

\* An iOS sample is there, and has no linear_acceleration.
C24_WitnessIOS ==
    HasSample /\ Sample.device_type = "ios" /\ Sample.accelerometer = <<Scale, -2 * Scale, 3 * Scale>>

\* ------------------------------------------------- properties: scenarios

\* The window of interval i is over, and all it collected is the
\* quaternion [0, 0, 0, 1], once per tick of the window.
WindowOfReferenceOnly(i) ==
    /\ i \in 1..Len(timers)
    /\ timers[i].kind = "worldFrameSamples"
    /\ windowOver(timers[i].sampleCount)
    /\ LET samples == panels[timers[i].inst].samplesRef IN
       /\ BagSize(samples) = samplesToCollect
       /\ \A s \in DOMAIN samples : s.quaternion = IdentityQuat

\* C25: a world-frame calibration whose window collected only the
\* quaternion [0, 0, 0, 1], on each of its 90 ticks, produces the identity
\* matrix as smpl2imu and [0, 0, 0, 1] as referenceWorldQuat, and the
\* session ends in worldFrameComplete.
C25_StationaryGivesIdentity ==
    [][\A i \in 1..MaxStarts :
          SampleTick(i) /\ WindowOfReferenceOnly(i) =>
              /\ calibrationParams'.isCalibrated
              /\ calibrationParams'.referenceWorldQuat = IdentityQuat
              /\ wsOpen => /\ wsOut'.type = "calibration"
                           /\ wsOut'.data.smpl2imu = Identity3
                           /\ wsOut'.data.referenceWorldQuat = IdentityQuat
              /\ panels'[timers[i].inst].calibrationStep = "worldFrameComplete"]_vars

\* The session of the glasses at rest has ended and its result was sent.
C25_Witness ==
    /\ mounted # 0
    /\ panels[mounted].calibrationStep = "worldFrameComplete"
    /\ BagSize(panels[mounted].samplesRef) = samplesToCollect
    /\ timers = <<>>
    /\ calibrationParams.isCalibrated
    /\ calibrationParams.referenceDeviceId = "headphone_2"
    /\ calibrationParams.referenceWorldQuat = IdentityQuat
    /\ wsOut # Null
    /\ wsOut.type = "calibration"
    /\ wsOut.data.smpl2imu = Identity3

\* C26: under a record whose smpl2imu is the identity matrix and whose
\* referenceWorldQuat is [0, 0, 0, 1], with no T-pose data, applyCalibration
\* on a sample with quaternion [0, 0, 0, 1] and accelerometer [0, 0, 9.81]
\* returns worldFrameQuaternion [0, 0, 0, 1] and worldFrameAccelerometer
\* [0, 0, 9.81].
C26_IdentityCalibration ==
    /\ Has("applyCalibration")
    /\ call.calibrationData.smpl2imu = Identity3
    /\ call.calibrationData.referenceWorldQuat = IdentityQuat
    /\ call.deviceData.quaternion = IdentityQuat
    /\ call.deviceData.accelerometer = <<0, 0, Gravity>>
    => /\ ret.value.worldFrameQuaternion = IdentityQuat
       /\ ret.value.worldFrameAccelerometer = <<0, 0, Gravity>>

\* The call of the scenario has returned a calibrated sample.
C26_Witness ==
    /\ Has("applyCalibration")
    /\ call.calibrationData.smpl2imu = Identity3
    /\ call.calibrationData.referenceWorldQuat = IdentityQuat
    /\ call.deviceData.quaternion = IdentityQuat
    /\ call.deviceData.accelerometer = <<0, 0, Gravity>>
    /\ ret.value.isCalibrated
    /\ ret.value.worldFrameQuatForViz = IdentityQuat

\* ------------------------------------------------- properties: quaternions

\* q and r stand for the same rotation.
SameRotation(q, r) == q = r \/ q = Negated(r)

\* C27: the average of a list that holds a rotation together with its
\* antipodal representation is that same rotation.
C27_AntipodalAverage ==
    Has("calculateAverageQuaternion") => SameRotation(ret.value, call.quaternions[1])

\* What holds: the average is that rotation when its w is not zero, and is
\* [0, 0, 0, 1] when its w is zero.
C27_AntipodalAverageByW ==
    Has("calculateAverageQuaternion") =>
        IF call.quaternions[1][4] # 0
        THEN SameRotation(ret.value, call.quaternions[1])
        ELSE Len(call.quaternions) = 2 => ret.value = IdentityQuat

\* The branch of rotationMatrixToQuaternion that the matrix m takes.
Branch(m) ==
    IF m[1][1] + m[2][2] + m[3][3] > 0 THEN 1
    ELSE IF m[1][1] > m[2][2] /\ m[1][1] > m[3][3] THEN 2
    ELSE IF m[2][2] > m[3][3] THEN 3
    ELSE 4

\* C28: for a unit quaternion q, rotationMatrixToQuaternion of
\* quaternionToRotationMatrix(q) is q or -q, whichever branch is taken.
C28_RoundTrip ==
    Has("rotationMatrixToQuaternion") => SameRotation(ret.value, call.q)

\* A round trip through the last branch has returned: a rotation of 180
\* degrees about an axis nearest to z.
C28_Witness ==
    /\ Has("rotationMatrixToQuaternion")
    /\ Branch(quaternionToRotationMatrix(call.q)) = 4
    /\ call.q[2] # 0
    /\ call.q[4] = 0
    /\ SameRotation(ret.value, call.q)

\* Round trips through the other three branches have returned.
C28_WitnessTrace == Has("rotationMatrixToQuaternion") /\ Branch(quaternionToRotationMatrix(call.q)) = 1 /\ call.q[1] # 0

C28_WitnessX == Has("rotationMatrixToQuaternion") /\ Branch(quaternionToRotationMatrix(call.q)) = 2 /\ call.q[2] # 0

C28_WitnessY == Has("rotationMatrixToQuaternion") /\ Branch(quaternionToRotationMatrix(call.q)) = 3 /\ call.q[3] # 0

\* C29, as stated: for every quaternion q, quaternionMultiply(q,
\* inverseQuaternion(q)) is the identity quaternion.
C29_InverseOfAny ==
    Has("quaternionMultiply") => ret.value = IdentityQuat

\* C29, amended: for every quaternion q of unit length, quaternionMultiply(q,
\* inverseQuaternion(q)) is the identity quaternion; for any q it is
\* [0, 0, 0, |q|^2].
C29_InverseOfUnit ==
    Has("quaternionMultiply") =>
        LET q == call.q
            lengthSquared == Mul(q[1], q[1]) + Mul(q[2], q[2]) + Mul(q[3], q[3]) + Mul(q[4], q[4])
        IN  /\ ret.value = <<0, 0, 0, lengthSquared>>
            /\ q \in UnitQuats => ret.value = IdentityQuat

\* The product of a unit quaternion with four components and its inverse.
C29_Witness ==
    /\ Has("quaternionMultiply")
    /\ call.q \in UnitQuats
    /\ \A k \in 1..4 : call.q[k] # 0
    /\ ret.value = IdentityQuat

\* 2 (w y - z x) of the quaternion q.
SinPitch(q) == 2 * (Mul(q[4], q[2]) - Mul(q[3], q[1]))

\* C30: the pitch that quaternionToEuler returns is exactly 90 or -90
\* degrees, with the sign of 2 (w y - z x), whenever that is 1 or more in
\* absolute value, and is never NaN.
C30_PitchClamped ==
    Has("quaternionToEuler") =>
        LET sinp == SinPitch(call.q)
            pitch == ret.value[2]
        IN  /\ Abs(sinp) >= Scale => pitch = Sign(sinp) * 90 * Scale
            /\ ~isNaN(pitch)

\* The pitch of a unit quaternion at gimbal lock is 90 degrees.
C30_Witness ==
    /\ Has("quaternionToEuler")
    /\ call.q \in UnitQuats
    /\ SinPitch(call.q) = Scale
    /\ ret.value[2] = 90 * Scale

\* The pitch of a quaternion longer than a unit is clamped to -90 degrees.
C30_WitnessLong ==
    Has("quaternionToEuler") /\ SinPitch(call.q) < -Scale /\ ret.value[2] = -(90 * Scale)

\* ------------------------------------------- properties: collected samples

\* The number of copies of sample s in a buffer.
Copies(bag, s) == IF s \in DOMAIN bag THEN bag[s] ELSE 0

\* Interval i is a running world-frame window and this step is its callback.
WorldFrameTick(i) ==
    /\ i \in 1..Len(timers)
    /\ timers[i].kind = "worldFrameSamples"
    /\ ~windowOver(timers[i].sampleCount)
    /\ SampleTick(i)

\* The sample of device k as the devices state ds has it.
SampleOf(ds, k) == Pick(ds[k], {"quaternion", "accelerometer"})

\* C31 as stated: a callback of a collection window appends the data that
\* the device has at that tick, whatever it had when the calibration was
\* started.
C31_SamplesAreCurrent ==
    [][\A i \in 1..MaxStarts :
          WorldFrameTick(i) /\ timers[i].selectedDevice \in DOMAIN devices =>
              LET buffer == panels[timers[i].inst].samplesRef
                  current == SampleOf(devices, timers[i].selectedDevice)
              IN  Copies(panels'[timers[i].inst].samplesRef, current) = Copies(buffer, current) + 1]_vars

\* What holds: a callback appends the data that the device had in the
\* render whose button was clicked, on every tick of the window.
C31_SamplesAreSnapshot ==
    [][\A i \in 1..MaxStarts :
          WorldFrameTick(i) =>
              LET buffer == panels[timers[i].inst].samplesRef
                  snapshot == SampleOf(timers[i].devices, timers[i].selectedDevice)
              IN  Copies(panels'[timers[i].inst].samplesRef, snapshot) = Copies(buffer, snapshot) + 1]_vars

\* Interval i is a running T-pose window and this step is its callback.
TPoseTick(i) ==
    /\ i \in 1..Len(timers)
    /\ timers[i].kind = "tposeSamples"
    /\ ~windowOver(timers[i].sampleCount)
    /\ SampleTick(i)

\* This step is the callback that ends the T-pose window of interval i.
TPoseEnd(i) ==
    /\ i \in 1..Len(timers)
    /\ timers[i].kind = "tposeSamples"
    /\ windowOver(timers[i].sampleCount)
    /\ SampleTick(i)

\* The number of T-pose samples of device k in the buffers ref.
TPoseSamples(ref, k) == IF k \in DOMAIN ref THEN BagSize(ref[k]) ELSE 0

\* The step has appended one T-pose sample of device k for interval i.
Sampled(i, k) ==
    TPoseSamples(panels'[timers[i].inst].tposeSamplesRef, k)
        = TPoseSamples(panels[timers[i].inst].tposeSamplesRef, k) + 1

\* The devices that are active and have world-frame data in the state ds.
Reporting(ds) == {k \in DOMAIN ds : ds[k].isActive /\ "worldFrameQuaternion" \in DOMAIN ds[k]}

\* C32 as stated: each tick of a T-pose window samples exactly the devices
\* that are active and have world-frame data at that tick, a device
\* without data is skipped and the window goes on, and the result of the
\* window has an entry for exactly the devices that were sampled.
C32_EntriesForReportingDevices ==
    [][\A i \in 1..MaxStarts :
          /\ TPoseTick(i) =>
                /\ \A k \in DeviceKeys : Sampled(i, k) <=> k \in Reporting(devices)
                /\ timers'[i].sampleCount = timers[i].sampleCount + 1
          /\ TPoseEnd(i) =>
                DOMAIN calibrationParams'.device2boneMatrices =
                    {k \in DeviceKeys : TPoseSamples(panels[timers[i].inst].tposeSamplesRef, k) > 0}]_vars

\* What holds: each tick samples the devices that were active and had
\* world-frame data in the render whose T-pose button was clicked.
C32_EntriesForSnapshotDevices ==
    [][\A i \in 1..MaxStarts :
          /\ TPoseTick(i) =>
                /\ \A k \in DeviceKeys : Sampled(i, k) <=> k \in Reporting(timers[i].devices)
                /\ timers'[i].sampleCount = timers[i].sampleCount + 1
          /\ TPoseEnd(i) =>
                DOMAIN calibrationParams'.device2boneMatrices =
                    {k \in DeviceKeys : TPoseSamples(panels[timers[i].inst].tposeSamplesRef, k) > 0}]_vars

\* ------------------------------------------- properties: applyCalibration

\* The field f of the object o, Null when o does not have it.
Field(o, f) == IF f \in DOMAIN o THEN o[f] ELSE Null

\* The orientation of the sample in the world frame with the bone
\* correction m: the quaternion of smpl2imu * R(q) * m.
BoneCorrected(calibrationData, deviceData, m) ==
    rotationMatrixToQuaternion(
        matrixMultiply(matrixMultiply(calibrationData.smpl2imu,
                                      quaternionToRotationMatrix(deviceData.quaternion)), m))

\* C33: for the same sample, smpl2imu and offsets, applyCalibration yields
\* the same worldFrameAccelerometer and worldFrameLinearAcceleration whether
\* or not a device2bone matrix is stored for the device, while
\* worldFrameQuaternion is the orientation with the bone correction.
C33_AccelerationWithoutBone ==
    Has("applyCalibrationTPose") =>
        /\ ret.value.bone.worldFrameAccelerometer = ret.value.plain.worldFrameAccelerometer
        /\ Field(ret.value.bone, "worldFrameLinearAcceleration")
               = Field(ret.value.plain, "worldFrameLinearAcceleration")
        /\ ret.value.bone.worldFrameQuaternion
               = BoneCorrected(call.calibrationData, call.deviceData, call.device2bone)
        /\ ret.value.plain.worldFrameQuaternion
               = BoneCorrected(call.calibrationData, call.deviceData, Identity3)
        /\ ret.value.bone.worldFrameQuaternion # ret.value.plain.worldFrameQuaternion

\* A sample of the glasses under a T-pose with offsets: the orientation has
\* the bone correction, the two accelerations are those without it.
C33_Witness ==
    /\ Has("applyCalibrationTPose")
    /\ call.withOffsets
    /\ call.deviceData.accelerometer = <<Scale, -2 * Scale, 3 * Scale>>
    /\ "worldFrameLinearAcceleration" \in DOMAIN ret.value.bone
    /\ ret.value.bone.hasAccOffset /\ ret.value.bone.hasLinearAccOffset
    /\ ret.value.bone.worldFrameQuaternion # ret.value.plain.worldFrameQuaternion
    /\ ret.value.bone.worldFrameAccelerometer = ret.value.plain.worldFrameAccelerometer
    /\ ret.value.bone.worldFrameLinearAcceleration = ret.value.plain.worldFrameLinearAcceleration

\* C34: applyCalibration changes neither the sample it is given nor the
\* record of the store.  In a fan-out every observer is sent what
\* applyCalibration makes of the one processed sample under its own record:
\* all the fields of that sample with their values, and world-frame fields
\* and flags besides; nothing of another observer's result.
C34_SampleAndRecordUntouched ==
    [][FannedOut =>
          /\ calibrations' = calibrations
          /\ \A c \in fanout'.delivered :
                LET data == Last(sent'[c]).data IN
                /\ data = applyCalibration(calibrations, c, fanout'.data).value
                /\ \A f \in DOMAIN fanout'.data : f \in DOMAIN data /\ data[f] = fanout'.data[f]
                /\ (DOMAIN data) \ (DOMAIN fanout'.data) \subseteq WorldFrameFields
                /\ Uncalibrated(c) => data = fanout'.data]_vars

\* One sample went to two observers: the first was sent it calibrated under
\* its record, the one after it, which has no record, as it was processed.
C34_Witness ==
    /\ Len(clients) = 2
    /\ fanout.delivered = {clients[1], clients[2]}
    /\ clients[1] \in DOMAIN calibrations
    /\ clients[2] \notin DOMAIN calibrations
    /\ Last(sent[clients[1]]).type = "imu_data"
    /\ "worldFrameQuaternion" \in DOMAIN Last(sent[clients[1]]).data
    /\ Last(sent[clients[1]]).data.isCalibrated
    /\ Last(sent[clients[2]]).type = "imu_data"
    /\ Last(sent[clients[2]]).data = fanout.data

\* ------------------------------------------- properties: headphone remap

\* The names of the headphone class of the device table.
HeadphoneClass == {"headphone", "airpods"}

\* The fields of an iOS payload, as numbers.
WireAcceleration(message) ==
    << parseFloat(message.tokens[3]), parseFloat(message.tokens[4]), parseFloat(message.tokens[5]) >>

WireQuaternion(message) ==
    << parseFloat(message.tokens[6]), parseFloat(message.tokens[7]),
       parseFloat(message.tokens[8]), parseFloat(message.tokens[9]) >>

\* The remap: the roll changes sign, pitch and yaw change places; the
\* acceleration becomes [-x, z, y].
RemappedQuaternion(q) ==
    LET euler == quaternionToEuler(q) IN eulerToQuaternion(<< -euler[1], euler[3], euler[2] >>)

RemappedAcceleration(a) == << -a[1], a[3], a[2] >>

\* The sample is that of the payload with the remap applied, or without it.
Remapped ==
    /\ Sample.accelerometer = RemappedAcceleration(WireAcceleration(call.message))
    /\ Sample.quaternion = RemappedQuaternion(WireQuaternion(call.message))

NotRemapped ==
    /\ Sample.accelerometer = WireAcceleration(call.message)
    /\ Sample.quaternion = WireQuaternion(call.message)

IOSSample == HasSample /\ Sample.device_type = "ios" /\ AllNumeric(call.message)

\* C35 as stated: the remap is applied to every iOS sample whose device
\* name is of the headphone class, the alias airpods included, and to no
\* sample of a phone or a watch.
C35_RemapForHeadphoneClass ==
    IOSSample =>
        IF toLowerCase(call.message.name) \in HeadphoneClass THEN Remapped ELSE NotRemapped

\* What holds: the remap is applied to the samples named headphone and to
\* no other; a sample named airpods has the index of the headphone and the
\* axes of the payload.
C35_RemapForHeadphoneName ==
    IOSSample =>
        /\ IF toLowerCase(call.message.name) = "headphone" THEN Remapped ELSE NotRemapped
        /\ call.message.name = "airpods" => Sample.device_id = 2

\* C36: a world-frame calibration stored for an observer that has T-pose
\* data replaces the whole record: device2boneMatrices and the two offset
\* maps are empty, the observer is reported as calibrated and not as T-pose
\* calibrated, and a sample gets the new smpl2imu and nothing else applied.
C36_NewCalibrationReplacesRecord ==
    Has("setCalibration") =>
        /\ \A f \in TPoseMaps : ret.value.record[f] = EmptyObject
        /\ ret.value.record.smpl2imu = call.calibrationData.smpl2imu
        /\ ret.value.record.referenceWorldQuat = call.calibrationData.referenceWorldQuat
        /\ ret.value.isCalibrated
        /\ ~ret.value.isTPoseCalibrated
        /\ ret.value.sample.worldFrameQuaternion
               = BoneCorrected(call.calibrationData, call.deviceData, Identity3)
        /\ ret.value.sample.worldFrameAccelerometer
               = matrixVectorMultiply(
                     matrixMultiply(call.calibrationData.smpl2imu,
                                    quaternionToRotationMatrix(call.deviceData.quaternion)),
                     call.deviceData.accelerometer)
        /\ ~ret.value.sample.hasAccOffset
        /\ ~ret.value.sample.hasLinearAccOffset

\* The record that was replaced held a T-pose with offsets for the device of
\* the sample; the sample is calibrated under the new record without them.
C36_Witness ==
    /\ Has("setCalibration")
    /\ ret.value.wasTPoseCalibrated
    /\ call.withOffsets
    /\ call.calibrationData.smpl2imu = Identity3
    /\ ret.value.sample.isCalibrated
    /\ ret.value.sample.worldFrameQuaternion = call.deviceData.quaternion
    /\ ret.value.sample.worldFrameAccelerometer = call.deviceData.accelerometer

\* ------------------------------------------- properties: T-pose messages

TPoseMessages == {m \in ClientMessages : m.type = "tpose_calibration"}

\* C37: a tpose_calibration message of an observer that has no record
\* leaves the store as it is: no record is created, and applyCalibration
\* still returns the observer's samples unchanged.
C37_TPoseWithoutRecord ==
    [][\A c \in Observers : \A m \in TPoseMessages :
          OnMessage(c, m) /\ c \notin DOMAIN calibrations =>
              /\ calibrations' = calibrations
              /\ c \notin DOMAIN calibrations'
              /\ \A d \in PhoneSamples : applyCalibration(calibrations', c, d) = Returns(d)]_vars

\* An observer whose only message was a T-pose calibration, which was
\* confirmed, has no record and has then been sent a sample as processed.
C37_Witness ==
    \E c \in Observers :
        /\ CanReceive(c)
        /\ received = 1
        /\ c \notin DOMAIN calibrations
        /\ Len(sent[c]) = 3
        /\ sent[c][2].type = "tpose_calibration_confirmed"
        /\ sent[c][3].type = "imu_data"
        /\ sent[c][3].data = fanout.data

\* ------------------------------------------- properties: the connection

\* C38 as stated: whenever the page says calibrated, the server holds a
\* calibration record for the page's connection.
C38_CalibratedMeansRecord ==
    calibrationParams.isCalibrated => Page \in DOMAIN calibrations

\* What holds: a calibration that completes while the page's socket and the
\* server's side of it are open stores a record for the page.
C38_RecordWhenDelivered ==
    [][\A calibrationData \in StoredData :
          /\ App_handleCalibrationComplete(calibrationData)
          /\ wsOpen /\ readyState[Page] = "OPEN"
          => /\ Page \in DOMAIN calibrations'
             /\ calibrations'[Page].smpl2imu = calibrationData.smpl2imu
             /\ calibrationParams'.isCalibrated]_vars

\* C39 as stated: at most one reconnect timer is pending at a time, and once
\* App is unmounted no new WebSocket connection is opened.
C39_OneTimerAndNoSocketAfterUnmount ==
    [][/\ Cardinality(connection'.pending) <= 1
       /\ connection.unmounted => connection'.sockets = connection.sockets]_vars

\* What holds: at most one reconnect timer is pending at a time.
C39_OneReconnectTimer ==
    Cardinality(connection.pending) <= 1

\* -------------------------------------------- properties: classification

\* The payload contains both ';' and ':'.
IOSShape(message) == HasSemicolon(message) /\ HasColon(message)

\* C40 as stated: a payload that contains both ';' and ':' is never parsed
\* and delivered as an ar_glasses sample.
C40_IOSShapeNeverGlasses ==
    HasSample /\ IOSShape(call.message) => Sample.device_type # "ar_glasses"

\* What holds: a payload that contains both ';' and ':' and starts with no
\* digit is delivered as an ios sample or not at all, and a payload that
\* parseIOSMessage accepts is never delivered as an ar_glasses sample.
C40_NoDigitNeverGlasses ==
    /\ /\ Has("processDeviceData")
       /\ IOSShape(call.message)
       /\ isNaN(parseFloat(Parts(call.message)[1]))
       => ret.value = Null \/ Sample.device_type = "ios"
    /\ /\ HasSample
       /\ parseIOSMessage(call.message) # Null
       => Sample.device_type = "ios"

====
